---- MODULE Spec2Model ----
(***************************************************************************)
(* Model of the asset upload lifecycle (AssetService over AssetRepository  *)
(* and an UploadProvider) and of the series/episode aggregate              *)
(* (SeriesService over SeriesRepository) of eslsoft/lession.               *)
(*                                                                         *)
(* Every service operation is one atomic action: the services are          *)
(* synchronous and the sequential specifications run one call at a time.   *)
(* Collaborator failures (the Provider, a Repository call) are inputs of   *)
(* the action, the `fail` argument naming the call that fails.             *)
(* `last` records the most recent call: its inputs, its error and what it  *)
(* returned, so that statements about results are state predicates.        *)
(* Rows carry the columns that an operation branches on, counts, orders by *)
(* or stamps; titles, upload targets, tags and creation times are left out.*)
(***************************************************************************)
EXTENDS Integers, Sequences, FiniteSets, TLC

VARIABLES
    sessions,   \* upload_sessions table: id -> row
    assets,     \* assets table: id -> row
    everReady,  \* history: ids of the stored assets whose status has been ready
    series,     \* series table: id -> row
    episodes,   \* episodes table: id -> row
    uuids,      \* number of identifiers uuid.New() has handed out
    clock,      \* the wall clock, read by s.now() and time.Now()
    last,       \* the most recent call and its outcome
    inflight    \* the calls in progress at once: caller -> position and locals

vars == <<sessions, assets, everReady, series, episodes, uuids, clock, last, inflight>>

assetVars == <<sessions, assets, everReady>>
seriesVars == <<series, episodes>>

---------------------------------------------------------------------------
(* Bounds of the model *)

\* CreateUpload calls that reach uuid.New()
MaxUploads == 1
\* largest clock value
MaxClock == 2
\* series and episodes that can be stored
MaxRows == 3
\* largest Seq of an episode
MaxSeq == 2
\* distinct slugs
MaxSlugs == 1
MaxListed == 3
\* uploads that reach the Repository where two of them are needed
MaxKeyUploads == 2

---------------------------------------------------------------------------
(* Domain values: internal/core *)

NilUUID == 0
\* a nil *time.Time
NoTime == 0

OK == "ok"
ErrNotFound == "ErrNotFound"
ErrValidation == "ErrValidation"
ErrUploadIdentifierRequired == "ErrUploadIdentifierRequired"
ErrUploadInvalidState == "ErrUploadInvalidState"
\* an opaque Provider or Repository failure
ErrInternal == "ErrInternal"
\* a unique-index violation raised by the store
ErrConstraint == "ErrConstraint"
ErrInvalidPageToken == "invalid page token"

AssetTypeUnspecified == "unspecified"
AssetTypeVideo == "video"

AssetStatusUnspecified == "unspecified"
AssetStatusPending == "pending"
AssetStatusProcessing == "processing"
AssetStatusReady == "ready"
AssetStatusFailed == "failed"
AssetStatusDeleted == "deleted"

UploadStatusUnspecified == "unspecified"
UploadStatusAwaitingUpload == "awaiting-upload"
UploadStatusUploading == "uploading"
UploadStatusCompleted == "completed"
UploadStatusExpired == "expired"
UploadStatusFailed == "failed"

\* time.Second; durations are counted in milliseconds
Second == 1000

---------------------------------------------------------------------------
(* Inputs *)

AssetKeys == {"k1", "k2"}
Filenames == {"", "a.mp4"}
MimeTypes == {"", "video/mp4"}
\* the length CreateUpload declares and the lengths CompleteUpload reports
DeclaredLengths == {0}
CompletedLengths == {-1, 1}
Durations == {1500, 2000}
PlaybackURLs == {"u1"}
EstimatedStatuses == {AssetStatusUnspecified, AssetStatusProcessing}

UUIDs == 1 .. (2 * MaxUploads)

\* one valid request per content length, and one request per validation rule
\* that breaks that rule alone
ValidCreateUploadParams ==
    [type : {AssetTypeVideo},
     originalFilename : Filenames \ {""},
     mimeType : MimeTypes \ {""},
     contentLength : DeclaredLengths]

InvalidCreateUploadParams ==
    LET p == [type |-> AssetTypeVideo, originalFilename |-> "a.mp4",
              mimeType |-> "video/mp4", contentLength |-> 0]
    IN {[p EXCEPT !.type = AssetTypeUnspecified],
        [p EXCEPT !.originalFilename = ""],
        [p EXCEPT !.mimeType = ""],
        [p EXCEPT !.contentLength = -1]}

CreateUploadParams == ValidCreateUploadParams \cup InvalidCreateUploadParams

\* the Provider lets every upload expire at the first clock value
ProviderCreateUploadResults ==
    [assetKey : AssetKeys, estimatedStatus : EstimatedStatuses, expiresAt : {1}]

ProviderCompleteUploadResults ==
    [playbackURL : PlaybackURLs, duration : Durations]

UploadIdentifiers ==
    [uploadID : {NilUUID} \cup UUIDs, assetKey : {""} \cup AssetKeys]

---------------------------------------------------------------------------
(* AssetRepository *)

NoRow == [id |-> NilUUID]

SessionByKey(k) == {id \in DOMAIN sessions : sessions[id].assetKey = k}
AssetByKey(k) == {id \in DOMAIN assets : assets[id].assetKey = k}

\* int(asset.Duration / time.Second)
DurationSeconds(d) == d \div Second

toDomainAsset(row) ==
    [id |-> row.id,
     assetKey |-> row.assetKey,
     type |-> row.type,
     status |-> row.status,
     originalFilename |-> row.originalFilename,
     mimeType |-> row.mimeType,
     filesize |-> row.filesize,
     duration |-> row.durationSeconds * Second,
     playbackURL |-> row.playbackURL,
     updatedAt |-> row.updatedAt,
     readyAt |-> row.readyAt]

\* the row CreateAsset inserts
AssetCreateRow(asset) ==
    [id |-> asset.id,
     assetKey |-> asset.assetKey,
     type |-> asset.type,
     status |-> asset.status,
     originalFilename |-> asset.originalFilename,
     mimeType |-> asset.mimeType,
     filesize |-> asset.filesize,
     durationSeconds |-> DurationSeconds(asset.duration),
     playbackURL |-> asset.playbackURL,
     updatedAt |-> asset.updatedAt,
     readyAt |-> asset.readyAt]

\* the row UpdateAsset leaves: asset_key and type are not written
AssetUpdateRow(row, asset) ==
    [row EXCEPT
        !.status = asset.status,
        !.originalFilename = asset.originalFilename,
        !.mimeType = asset.mimeType,
        !.filesize = asset.filesize,
        !.durationSeconds = DurationSeconds(asset.duration),
        !.updatedAt = asset.updatedAt,
        !.playbackURL = asset.playbackURL,
        !.readyAt = asset.readyAt]

\* the row UpdateUploadSession leaves: asset_key and type are not written
SessionUpdateRow(row, session) ==
    [row EXCEPT
        !.status = session.status,
        !.originalFilename = session.originalFilename,
        !.mimeType = session.mimeType,
        !.contentLength = session.contentLength,
        !.expiresAt = session.expiresAt]

\* a session table whose only unique index is the id
SessionInsertConflictByID(session) ==
    session.id \in DOMAIN sessions

\* unique indexes of upload_sessions: id, asset_key
SessionInsertConflict(session) ==
    \/ session.id \in DOMAIN sessions
    \/ SessionByKey(session.assetKey) # {}

\* unique indexes of assets: id, asset_key
AssetInsertConflict(asset) ==
    \/ asset.id \in DOMAIN assets
    \/ AssetByKey(asset.assetKey) # {}

\* the history of "status has been ready" after a row is written
Remember(id, status) ==
    IF status = AssetStatusReady THEN everReady \cup {id} ELSE everReady

---------------------------------------------------------------------------
(* AssetService *)

\* a validation that lets a negative length through
validateWithoutLength(params) ==
    IF params.type = AssetTypeUnspecified THEN ErrValidation
    ELSE IF params.originalFilename = "" THEN ErrValidation
    ELSE IF params.mimeType = "" THEN ErrValidation
    ELSE OK

validateCreateUploadParams(params) ==
    IF params.type = AssetTypeUnspecified THEN ErrValidation
    ELSE IF params.originalFilename = "" THEN ErrValidation
    ELSE IF params.mimeType = "" THEN ErrValidation
    ELSE IF params.contentLength < 0 THEN ErrValidation
    ELSE OK

\* the record of a call: what it was given, its error, the Provider calls and
\* the number of Repository writes it made, and what it returned
Call(op, in, err, calls, writes, out) ==
    [op |-> op, in |-> in, err |-> err, calls |-> calls, writes |-> writes, out |-> out]

None == [none |-> TRUE]

FailCreateUpload == {"none", "provider.CreateUpload", "repo.CreateUploadSession", "repo.CreateAsset"}

NewUploadSession(params, providerRes, id) ==
    [id |-> id,
     assetKey |-> providerRes.assetKey,
     type |-> params.type,
     status |-> UploadStatusAwaitingUpload,
     originalFilename |-> params.originalFilename,
     mimeType |-> params.mimeType,
     contentLength |-> params.contentLength,
     expiresAt |-> providerRes.expiresAt]

\* a service that ignores the Provider's estimate
EstimatedAssetStatusIgnored(providerRes) == AssetStatusPending

EstimatedAssetStatus(providerRes) ==
    IF providerRes.estimatedStatus = AssetStatusUnspecified
    THEN AssetStatusPending
    ELSE providerRes.estimatedStatus

NewAsset(params, providerRes, id, now) ==
    [id |-> id,
     assetKey |-> providerRes.assetKey,
     type |-> params.type,
     status |-> EstimatedAssetStatus(providerRes),
     originalFilename |-> params.originalFilename,
     mimeType |-> params.mimeType,
     filesize |-> params.contentLength,
     duration |-> 0,
     playbackURL |-> "",
     updatedAt |-> now,
     readyAt |-> NoTime]

\* a CreateUpload that persists the session and the asset together or not at all
CreateUploadTogether(params, providerRes, fail) ==
    LET session == NewUploadSession(params, providerRes, uuids + 1)
        asset == NewAsset(params, providerRes, uuids + 2, clock)
        Return(err, calls, writes, out) ==
            last' = Call("CreateUpload", None, err, calls, writes, out)
    IN
    /\ UNCHANGED <<seriesVars, clock, inflight>>
    /\ IF validateCreateUploadParams(params) # OK
       THEN /\ Return(ErrValidation, <<>>, 0, None)
            /\ UNCHANGED <<sessions, assets, everReady, uuids>>
       ELSE IF fail = "provider.CreateUpload"
       THEN /\ Return(ErrInternal, <<"CreateUpload">>, 0, None)
            /\ UNCHANGED <<sessions, assets, everReady, uuids>>
       ELSE
         /\ uuids + 2 <= 2 * MaxUploads
         /\ uuids' = uuids + 2
         /\ IF fail \in {"repo.CreateUploadSession", "repo.CreateAsset"}
            THEN /\ Return(ErrInternal, <<"CreateUpload">>, 0, None)
                 /\ UNCHANGED <<sessions, assets, everReady>>
            ELSE IF SessionInsertConflict(session) \/ AssetInsertConflict(asset)
            THEN /\ Return(ErrConstraint, <<"CreateUpload">>, 0, None)
                 /\ UNCHANGED <<sessions, assets, everReady>>
            ELSE /\ sessions' = sessions @@ (session.id :> session)
                 /\ assets' = assets @@ (asset.id :> AssetCreateRow(asset))
                 /\ everReady' = Remember(asset.id, asset.status)
                 /\ Return(OK, <<"CreateUpload">>, 2,
                           [session |-> session, asset |-> asset,
                            providerRes |-> providerRes])

\* AssetService.CreateUpload with no limit on the ids it draws
CreateUploadUnbounded(params, providerRes, fail) ==
    LET session == NewUploadSession(params, providerRes, uuids + 1)
        asset == NewAsset(params, providerRes, uuids + 2, clock)
        Return(err, calls, writes, out) ==
            last' = Call("CreateUpload", None, err, calls, writes, out)
    IN
    /\ UNCHANGED <<seriesVars, clock, inflight>>
    /\ IF validateCreateUploadParams(params) # OK
       THEN /\ Return(ErrValidation, <<>>, 0, None)
            /\ UNCHANGED <<sessions, assets, everReady, uuids>>
       ELSE IF fail = "provider.CreateUpload"
       THEN /\ Return(ErrInternal, <<"CreateUpload">>, 0, None)
            /\ UNCHANGED <<sessions, assets, everReady, uuids>>
       ELSE
         /\ uuids' = uuids + 2
         /\ IF fail = "repo.CreateUploadSession" \/ SessionInsertConflict(session)
            THEN /\ Return(IF fail = "repo.CreateUploadSession" THEN ErrInternal ELSE ErrConstraint,
                           <<"CreateUpload">>, 0, None)
                 /\ UNCHANGED <<sessions, assets, everReady>>
            ELSE
              /\ sessions' = sessions @@ (session.id :> session)
              /\ IF fail = "repo.CreateAsset" \/ AssetInsertConflict(asset)
                 THEN /\ Return(IF fail = "repo.CreateAsset" THEN ErrInternal ELSE ErrConstraint,
                                <<"CreateUpload">>, 1, None)
                      /\ UNCHANGED <<assets, everReady>>
                 ELSE /\ assets' = assets @@ (asset.id :> AssetCreateRow(asset))
                      /\ everReady' = Remember(asset.id, asset.status)
                      /\ Return(OK, <<"CreateUpload">>, 2,
                                [session |-> session, asset |-> asset,
                                 providerRes |-> providerRes])

\* AssetService.CreateUpload, for at most MaxUploads calls that reach the
\* Repository
CreateUpload(params, providerRes, fail) ==
    /\ (validateCreateUploadParams(params) = OK /\ fail # "provider.CreateUpload")
         => uuids + 2 <= 2 * MaxUploads
    /\ CreateUploadUnbounded(params, providerRes, fail)

FailLookup == {"repo.GetUploadSessionByID", "repo.GetUploadSessionByAssetKey"}

GetUploadSessionByID(id, fail) ==
    IF fail = "repo.GetUploadSessionByID" THEN [err |-> ErrInternal, row |-> NoRow]
    ELSE IF id \in DOMAIN sessions THEN [err |-> OK, row |-> sessions[id]]
    ELSE [err |-> ErrNotFound, row |-> NoRow]

GetUploadSessionByAssetKey(assetKey, fail) ==
    IF fail = "repo.GetUploadSessionByAssetKey" THEN [err |-> ErrInternal, row |-> NoRow]
    ELSE IF SessionByKey(assetKey) # {}
    THEN [err |-> OK, row |-> sessions[CHOOSE id \in SessionByKey(assetKey) : TRUE]]
    ELSE [err |-> ErrNotFound, row |-> NoRow]

GetAssetByID(id) ==
    IF id \in DOMAIN assets THEN [err |-> OK, row |-> assets[id]]
    ELSE [err |-> ErrNotFound, row |-> NoRow]

GetAssetByKey(assetKey, fail) ==
    IF fail = "repo.GetAssetByKey" THEN [err |-> ErrInternal, row |-> NoRow]
    ELSE IF AssetByKey(assetKey) # {}
    THEN [err |-> OK, row |-> assets[CHOOSE id \in AssetByKey(assetKey) : TRUE]]
    ELSE [err |-> ErrNotFound, row |-> NoRow]

isNotFound(err) == err = ErrNotFound

\* a lookup that tries the asset key before the ID
lookupByKeyFirst(id, fail) ==
    LET byID == GetUploadSessionByID(id.uploadID, fail)
        byKey == GetUploadSessionByAssetKey(id.assetKey, fail)
    IN
    IF id.uploadID = NilUUID /\ id.assetKey = ""
    THEN [err |-> ErrUploadIdentifierRequired, row |-> NoRow, reads |-> <<>>]
    ELSE IF id.assetKey # "" /\ byKey.err = OK
    THEN [err |-> OK, row |-> byKey.row, reads |-> <<"GetUploadSessionByAssetKey">>]
    ELSE IF id.assetKey # "" /\ ~isNotFound(byKey.err)
    THEN [err |-> byKey.err, row |-> NoRow, reads |-> <<"GetUploadSessionByAssetKey">>]
    ELSE IF id.uploadID # NilUUID
    THEN [err |-> byID.err, row |-> byID.row,
          reads |-> (IF id.assetKey # "" THEN <<"GetUploadSessionByAssetKey">> ELSE <<>>)
                    \o <<"GetUploadSessionByID">>]
    ELSE [err |-> ErrNotFound, row |-> NoRow, reads |-> <<"GetUploadSessionByAssetKey">>]

\* the session found, the error, and the Repository calls made on the way
lookupUploadSession(id, fail) ==
    LET byID == GetUploadSessionByID(id.uploadID, fail)
        byKey == GetUploadSessionByAssetKey(id.assetKey, fail)
    IN
    IF id.uploadID = NilUUID /\ id.assetKey = ""
    THEN [err |-> ErrUploadIdentifierRequired, row |-> NoRow, reads |-> <<>>]
    ELSE IF id.uploadID # NilUUID /\ byID.err = OK
    THEN [err |-> OK, row |-> byID.row, reads |-> <<"GetUploadSessionByID">>]
    ELSE IF id.uploadID # NilUUID /\ ~isNotFound(byID.err)
    THEN [err |-> byID.err, row |-> NoRow, reads |-> <<"GetUploadSessionByID">>]
    ELSE IF id.assetKey # ""
    THEN [err |-> byKey.err, row |-> byKey.row,
          reads |-> (IF id.uploadID # NilUUID THEN <<"GetUploadSessionByID">> ELSE <<>>)
                    \o <<"GetUploadSessionByAssetKey">>]
    ELSE [err |-> ErrNotFound, row |-> NoRow, reads |-> <<"GetUploadSessionByID">>]

\* AssetService.GetUploadSession
GetUploadSession(identifier, fail) ==
    LET found == lookupUploadSession(identifier, fail)
    IN
    /\ UNCHANGED <<assetVars, seriesVars, uuids, clock, inflight>>
    /\ last' = Call("GetUploadSession", None, found.err, <<>>, 0,
                    [session |-> found.row, reads |-> found.reads])

\* a switch that lets every status through
CanCompleteAlways(status) == TRUE

\* a switch that lets a completed session through as well
CanCompleteAgain(status) ==
    status \in {UploadStatusAwaitingUpload, UploadStatusUploading, UploadStatusCompleted}

\* the switch on session.Status
CanComplete(status) ==
    status \in {UploadStatusAwaitingUpload, UploadStatusUploading}

\* a CompleteUpload that makes no asset ready that is deleted or failed
CompletedUnlessGone(asset, providerRes, contentLength, now) ==
    IF asset.status \in {AssetStatusDeleted, AssetStatusFailed}
    THEN asset
    ELSE [asset EXCEPT
            !.status = AssetStatusReady,
            !.playbackURL = providerRes.playbackURL,
            !.duration = providerRes.duration,
            !.filesize = contentLength,
            !.updatedAt = now,
            !.readyAt = now]

\* the asset CompleteUpload hands to UpdateAsset
CompletedAsset(asset, providerRes, contentLength, now) ==
    [asset EXCEPT
        !.status = AssetStatusReady,
        !.playbackURL = providerRes.playbackURL,
        !.duration = providerRes.duration,
        !.filesize = contentLength,
        !.updatedAt = now,
        !.readyAt = now]

\* a CompleteUpload that stores the session as expired
SessionMarkedExpired(session) ==
    [session EXCEPT !.status = UploadStatusExpired]

\* a CompleteUpload that hands the session to UpdateUploadSession as it read it
SessionLeftOpen(session) == session

\* the session CompleteUpload hands to UpdateUploadSession
CompletedSession(session) ==
    [session EXCEPT !.status = UploadStatusCompleted]

FailCompleteUpload ==
    {"none", "provider.CompleteUpload", "repo.UpdateUploadSession",
     "repo.GetAssetByKey", "repo.UpdateAsset"} \cup FailLookup

CompleteUploadParams ==
    [identifier : UploadIdentifiers, contentLength : CompletedLengths]

\* whether the call before this one was a CompleteUpload that succeeded with
\* this identifier
Again(identifier) ==
    /\ last.op = "CompleteUpload"
    /\ last.err = OK
    /\ last.in.identifier = identifier

CompleteUpload(params, providerRes, fail) ==
    LET found == lookupUploadSession(params.identifier, fail)
        session == CompletedSession(found.row)
        got == GetAssetByKey(session.assetKey, fail)
        asset == CompletedAsset(toDomainAsset(got.row), providerRes, params.contentLength, clock)
        \* the identifier and the length are kept for a call that succeeds; every
        \* call keeps the session it resolved and whether it repeats the last call;
        \* the result of a call that succeeds also tells the status the asset had
        Return(err, calls, writes, out) ==
            last' = Call("CompleteUpload",
                         [identifier |-> IF err = OK THEN params.identifier ELSE None,
                          contentLength |-> IF err = OK THEN params.contentLength ELSE 0,
                          sid |-> IF params.contentLength < 0 THEN NilUUID ELSE found.row.id,
                          reads |-> IF params.contentLength < 0 THEN <<>> ELSE found.reads,
                          again |-> Again(params.identifier)],
                         err, calls, writes, out)
    IN
    /\ UNCHANGED <<seriesVars, uuids, clock, inflight>>
    /\ IF params.contentLength < 0
       THEN /\ Return(ErrValidation, <<>>, 0, None)
            /\ UNCHANGED assetVars
       ELSE IF found.err # OK
       THEN /\ Return(found.err, <<>>, 0, None)
            /\ UNCHANGED assetVars
       ELSE IF ~CanComplete(found.row.status)
       THEN /\ Return(ErrUploadInvalidState, <<>>, 0, None)
            /\ UNCHANGED assetVars
       ELSE IF fail = "provider.CompleteUpload"
       THEN /\ Return(ErrInternal, <<"CompleteUpload">>, 0, None)
            /\ UNCHANGED assetVars
       ELSE IF fail = "repo.UpdateUploadSession"
       THEN /\ Return(ErrInternal, <<"CompleteUpload">>, 0, None)
            /\ UNCHANGED assetVars
       ELSE
         /\ sessions' = [sessions EXCEPT ![session.id] = SessionUpdateRow(@, session)]
         /\ IF got.err # OK
            THEN /\ Return(got.err, <<"CompleteUpload">>, 1, None)
                 /\ UNCHANGED <<assets, everReady>>
            ELSE IF fail = "repo.UpdateAsset"
            THEN /\ Return(ErrInternal, <<"CompleteUpload">>, 1, None)
                 /\ UNCHANGED <<assets, everReady>>
            ELSE /\ assets' = [assets EXCEPT ![asset.id] = AssetUpdateRow(@, asset)]
                 /\ everReady' = Remember(asset.id, asset.status)
                 /\ Return(OK, <<"CompleteUpload">>, 2,
                           [asset |-> asset, session |-> session,
                            providerRes |-> providerRes, was |-> got.row.status])

\* the mutable fields of the asset a caller sends: a message with nothing but
\* the status filled in, and one with every field filled in
AssetMessages ==
    LET empty == [status |-> AssetStatusUnspecified, originalFilename |-> "",
                  mimeType |-> "", filesize |-> 0, duration |-> 0,
                  playbackURL |-> "", readyAt |-> NoTime]
    IN {[empty EXCEPT !.status = AssetStatusReady],
        [empty EXCEPT !.status = AssetStatusFailed],
        [empty EXCEPT !.status = AssetStatusProcessing,
                      !.originalFilename = "a.mp4", !.mimeType = "video/mp4",
                      !.filesize = 1, !.duration = 1500, !.playbackURL = "u1",
                      !.readyAt = clock]}

FailUpdateAsset == {"none", "repo.UpdateAsset"}

\* AssetService.UpdateAsset; the transport handler calls it with the request's
\* asset when the update mask is empty
UpdateAsset(id, message, fail) ==
    LET asset == message @@ [updatedAt |-> clock, id |-> id]
        Return(err, writes) ==
            last' = Call("UpdateAsset", [id |-> id], err, <<>>, writes, None)
    IN
    /\ UNCHANGED <<sessions, seriesVars, uuids, clock, inflight>>
    /\ IF id = NilUUID
       THEN /\ Return(ErrValidation, 0)
            /\ UNCHANGED <<assets, everReady>>
       ELSE IF fail = "repo.UpdateAsset"
       THEN /\ Return(ErrInternal, 0)
            /\ UNCHANGED <<assets, everReady>>
       ELSE IF id \notin DOMAIN assets
       THEN /\ Return(ErrNotFound, 0)
            /\ UNCHANGED <<assets, everReady>>
       ELSE /\ assets' = [assets EXCEPT ![id] = AssetUpdateRow(@, asset)]
            /\ everReady' = Remember(id, asset.status)
            /\ Return(OK, 1)

\* the update masks of the requests
UpdateMasks ==
    {<<"status">>, <<"playback_url", "duration">>, <<"filesize", "ready_at">>}

RECURSIVE applyAssetFieldMask(_, _, _)
\* the asset after the paths of the mask, in order; an unsupported path is an error
applyAssetFieldMask(target, patch, paths) ==
    IF paths = <<>> THEN [err |-> OK, asset |-> target]
    ELSE LET path == Head(paths)
             rest == Tail(paths)
         IN
         IF path = "status"
         THEN applyAssetFieldMask([target EXCEPT !.status = patch.status], patch, rest)
         ELSE IF path = "playback_url"
         THEN applyAssetFieldMask([target EXCEPT !.playbackURL = patch.playbackURL], patch, rest)
         ELSE IF path = "mime_type"
         THEN applyAssetFieldMask([target EXCEPT !.mimeType = patch.mimeType], patch, rest)
         ELSE IF path = "filesize"
         THEN applyAssetFieldMask([target EXCEPT !.filesize = patch.filesize], patch, rest)
         ELSE IF path = "original_filename"
         THEN applyAssetFieldMask([target EXCEPT !.originalFilename = patch.originalFilename], patch, rest)
         ELSE IF path = "duration"
         THEN applyAssetFieldMask([target EXCEPT !.duration = patch.duration], patch, rest)
         ELSE [err |-> ErrValidation, asset |-> target]

\* AssetHandler.UpdateAsset with a non-empty update mask: GetAsset, apply the
\* mask to what was read, UpdateAsset
UpdateAssetMasked(id, message, mask, fail) ==
    LET current == GetAssetByID(id)
        applied == applyAssetFieldMask(toDomainAsset(current.row), message, mask)
        asset == [applied.asset EXCEPT !.updatedAt = clock]
        Return(err, writes) ==
            last' = Call("UpdateAssetMasked", [id |-> id], err, <<>>, writes, None)
    IN
    /\ UNCHANGED <<sessions, seriesVars, uuids, clock, inflight>>
    /\ IF current.err # OK
       THEN /\ Return(current.err, 0)
            /\ UNCHANGED <<assets, everReady>>
       ELSE IF applied.err # OK
       THEN /\ Return(applied.err, 0)
            /\ UNCHANGED <<assets, everReady>>
       ELSE IF fail = "repo.UpdateAsset"
       THEN /\ Return(ErrInternal, 0)
            /\ UNCHANGED <<assets, everReady>>
       ELSE /\ assets' = [assets EXCEPT ![id] = AssetUpdateRow(@, asset)]
            /\ everReady' = Remember(id, asset.status)
            /\ Return(OK, 1)

\* DeleteAsset that archives the row whatever the flag says
DeleteAssetArchives(id, hardDelete) ==
    /\ UNCHANGED <<sessions, everReady, seriesVars, uuids, clock, inflight>>
    /\ IF id = NilUUID
       THEN /\ last' = Call("DeleteAsset", [id |-> id, hardDelete |-> hardDelete],
                            ErrValidation, <<>>, 0, None)
            /\ UNCHANGED assets
       ELSE IF id \notin DOMAIN assets
       THEN /\ last' = Call("DeleteAsset", [id |-> id, hardDelete |-> hardDelete],
                            ErrNotFound, <<>>, 0, None)
            /\ UNCHANGED assets
       ELSE /\ assets' = [assets EXCEPT ![id].status = AssetStatusDeleted,
                                        ![id].updatedAt = clock]
            /\ last' = Call("DeleteAsset", [id |-> id, hardDelete |-> hardDelete],
                            OK, <<>>, 1, [asset |-> toDomainAsset(assets'[id])])

\* AssetService.DeleteAsset over AssetRepository.DeleteAsset
DeleteAsset(id, hardDelete) ==
    LET Return(err, writes, out) ==
            last' = Call("DeleteAsset", [id |-> id, hardDelete |-> hardDelete],
                         err, <<>>, writes, out)
    IN
    /\ UNCHANGED <<sessions, everReady, seriesVars, uuids, clock, inflight>>
    /\ IF id = NilUUID
       THEN /\ Return(ErrValidation, 0, None)
            /\ UNCHANGED assets
       ELSE IF id \notin DOMAIN assets
       THEN /\ Return(ErrNotFound, 0, None)
            /\ UNCHANGED assets
       ELSE IF hardDelete
       THEN /\ assets' = [a \in DOMAIN assets \ {id} |-> assets[a]]
            /\ Return(OK, 1, None)
       ELSE /\ assets' = [assets EXCEPT ![id].status = AssetStatusDeleted,
                                        ![id].updatedAt = clock]
            /\ Return(OK, 1, [asset |-> toDomainAsset(assets'[id])])

\* AssetService.GetAsset: the error and the Repository calls made
GetAsset(id) ==
    [err |-> GetAssetByID(id).err, reads |-> <<"GetAssetByID">>]

\* a call of AssetService.GetAsset
GetAssetCall(id) ==
    LET got == GetAsset(id)
    IN
    /\ UNCHANGED <<assetVars, seriesVars, uuids, clock, inflight>>
    /\ last' = Call("GetAsset", [id |-> id], got.err, <<>>, 0, [reads |-> got.reads])

\* a call of AssetService.GetAssetByKey
GetAssetByKeyCall(assetKey, fail) ==
    LET got == GetAssetByKey(assetKey, fail)
        Return(err, reads) ==
            last' = Call("GetAssetByKey", [assetKey |-> assetKey], err, <<>>, 0,
                         [reads |-> reads])
    IN
    /\ UNCHANGED <<assetVars, seriesVars, uuids, clock, inflight>>
    /\ IF assetKey = "" THEN Return(ErrValidation, <<>>)
       ELSE Return(got.err, <<"GetAssetByKey">>)

\* strconv.Itoa on the offsets that occur: page tokens are decimal offsets
Itoa(n) == <<"0", "1", "2", "3", "4", "5", "6", "7", "8", "9">>[n + 1]

\* strconv.Atoi on a token; -1 stands for its error
Atoi(token) ==
    IF \E n \in 0 .. 9 : Itoa(n) = token
    THEN CHOOSE n \in 0 .. 9 : Itoa(n) = token
    ELSE -1

PageTokens == {"", "1", "x"}
DefaultPageSize == 20

\* parseOffset: the offset of a token, or ErrInvalidPageToken
parseOffset(token) ==
    IF token = "" THEN [err |-> OK, offset |-> 0]
    ELSE IF Atoi(token) < 0 THEN [err |-> ErrInvalidPageToken, offset |-> 0]
    ELSE [err |-> OK, offset |-> Atoi(token)]

\* the orders in which a query can return the rows ids
Orders(ids) ==
    {seq \in [1 .. Cardinality(ids) -> ids] :
        \A i, j \in 1 .. Cardinality(ids) : i # j => seq[i] # seq[j]}

\* rows[offset+1 .. offset+limit]
Page(rows, offset, limit) ==
    SubSeq(rows, offset + 1, IF offset + limit < Len(rows) THEN offset + limit ELSE Len(rows))

\* AssetService.ListAssets over AssetRepository.ListAssets
ListAssets(pageSize, pageToken, statuses, fail) ==
    LET parsed == parseOffset(pageToken)
        limit == IF pageSize <= 0 THEN DefaultPageSize ELSE pageSize
        matching == {id \in DOMAIN assets :
                        statuses # {} => assets[id].status \in statuses}
        Return(err, reads, out) ==
            last' = Call("ListAssets", [pageSize |-> pageSize], err, <<>>, 0,
                         [reads |-> reads] @@ out)
    IN
    /\ UNCHANGED <<assetVars, seriesVars, uuids, clock, inflight>>
    /\ IF pageSize < 0 THEN Return(ErrValidation, <<>>, <<>>)
       ELSE IF parsed.err # OK THEN Return(parsed.err, <<"ListAssets">>, <<>>)
       ELSE IF fail = "repo" THEN Return(ErrInternal, <<"ListAssets">>, <<>>)
       ELSE \E order \in Orders(matching) :
              LET rows == Page(order, parsed.offset, limit + 1)
                  more == Len(rows) > limit
              IN Return(OK, <<"ListAssets">>,
                        [assets |-> IF more THEN SubSeq(rows, 1, limit) ELSE rows,
                         nextToken |-> IF more THEN Itoa(parsed.offset + limit) ELSE ""])

---------------------------------------------------------------------------
(* Series and episodes: internal/core *)

SeriesStatusUnspecified == "unspecified"
SeriesStatusDraft == "draft"
SeriesStatusPublished == "published"
SeriesStatusArchived == "archived"

EpisodeStatusUnspecified == "unspecified"
EpisodeStatusDraft == "draft"
EpisodeStatusReady == "ready"
EpisodeStatusPublished == "published"
EpisodeStatusArchived == "archived"

RowIDs == 1 .. MaxRows
Seqs == 1 .. MaxSeq
\* slugs are numbered
Slugs == 1 .. MaxSlugs
EpisodeDurations == {1500}

\* the attributes of a draft that the service and the store branch on or count
EpisodeDrafts ==
    [seq : Seqs, duration : EpisodeDurations,
     status : {EpisodeStatusUnspecified, EpisodeStatusPublished}]

\* no draft, one draft, or two drafts with the default status
DraftEpisodeLists ==
    {<<>>} \cup {<<d>> : d \in EpisodeDrafts}
           \cup {<<d, e>> : d, e \in {x \in EpisodeDrafts : x.status = EpisodeStatusUnspecified}}

SeriesDrafts ==
    [slug : Slugs,
     status : {SeriesStatusUnspecified, SeriesStatusPublished},
     episodes : DraftEpisodeLists]

\* the core.Series values handed to UpdateSeries: status, EpisodeCount and
\* PublishedAt as the caller filled them in
SeriesMessages ==
    LET Message(status, episodeCount, publishedAt) ==
            [status |-> status, episodeCount |-> episodeCount, publishedAt |-> publishedAt]
        filled == {Message(SeriesStatusUnspecified, 0, NoTime),
                   Message(SeriesStatusDraft, 0, NoTime),
                   Message(SeriesStatusDraft, 1, NoTime),
                   Message(SeriesStatusPublished, 1, NoTime),
                   Message(SeriesStatusPublished, 1, 1)}
    IN {m @@ [id |-> id, slug |-> slug] :
            m \in filled, id \in {NilUUID} \cup RowIDs, slug \in Slugs}

\* the core.Episode values handed to UpdateEpisode: Seq, status, PublishedAt
\* and DeletedAt as the caller filled them in
EpisodeMessages ==
    LET Message(seq, status, publishedAt, deletedAt) ==
            [seq |-> seq, status |-> status, publishedAt |-> publishedAt,
             deletedAt |-> deletedAt, duration |-> 1500]
        filled == {Message(1, EpisodeStatusUnspecified, NoTime, NoTime),
                   Message(1, EpisodeStatusDraft, NoTime, NoTime),
                   Message(2, EpisodeStatusDraft, NoTime, NoTime),
                   Message(1, EpisodeStatusPublished, NoTime, NoTime),
                   Message(2, EpisodeStatusPublished, 1, NoTime),
                   Message(1, EpisodeStatusDraft, NoTime, 1)}
    IN {m @@ [id |-> id, seriesID |-> seriesID] :
            m \in filled, id \in {NilUUID} \cup RowIDs, seriesID \in {NilUUID} \cup RowIDs}

---------------------------------------------------------------------------
(* SeriesRepository *)

\* the episodes of a series that are not soft-deleted, in a table eps
LiveEpisodes(eps, seriesID) ==
    {e \in DOMAIN eps : eps[e].seriesID = seriesID /\ eps[e].deletedAt = NoTime}

\* a recount that lowers the stored count by one instead of counting
decrementEpisodeCount(sers, eps, seriesID, now) ==
    [sers EXCEPT ![seriesID].episodeCount = @ - 1,
                 ![seriesID].updatedAt = now]

\* the series table after the count of seriesID is recomputed from eps
recalcSeriesEpisodeCount(sers, eps, seriesID, now) ==
    [sers EXCEPT ![seriesID].episodeCount = Cardinality(LiveEpisodes(eps, seriesID)),
                 ![seriesID].updatedAt = now]

\* unique index of series: slug
SlugConflict(id, slug) ==
    \E o \in DOMAIN series : o # id /\ series[o].slug = slug

\* a unique index that leaves the soft-deleted rows out
SeqConflictAmongLive(eps, id, seriesID, seq) ==
    \E o \in DOMAIN eps :
        o # id /\ eps[o].seriesID = seriesID /\ eps[o].seq = seq
               /\ eps[o].deletedAt = NoTime

\* unique index of episodes: (series_id, seq), soft-deleted rows included
SeqConflict(eps, id, seriesID, seq) ==
    \E o \in DOMAIN eps : o # id /\ eps[o].seriesID = seriesID /\ eps[o].seq = seq

\* the same index over the episodes inserted in one transaction
BatchSeqConflict(built) ==
    \E i, j \in 1 .. Len(built) : i # j /\ built[i].seq = built[j].seq

toDomainEpisode(row) ==
    [id |-> row.id,
     seriesID |-> row.seriesID,
     seq |-> row.seq,
     duration |-> row.durationSeconds * Second,
     status |-> row.status,
     updatedAt |-> row.updatedAt,
     publishedAt |-> row.publishedAt,
     deletedAt |-> row.deletedAt]

\* applyEpisodeCreate with the id and the series id set
EpisodeCreateRow(seriesID, episode) ==
    [id |-> episode.id,
     seriesID |-> seriesID,
     seq |-> episode.seq,
     durationSeconds |-> DurationSeconds(episode.duration),
     status |-> episode.status,
     updatedAt |-> episode.updatedAt,
     publishedAt |-> episode.publishedAt,
     deletedAt |-> episode.deletedAt]

\* applyEpisodeUpdate: every column but id and series_id
EpisodeUpdateRow(row, episode) ==
    [row EXCEPT
        !.seq = episode.seq,
        !.durationSeconds = DurationSeconds(episode.duration),
        !.status = episode.status,
        !.updatedAt = episode.updatedAt,
        !.publishedAt = episode.publishedAt,
        !.deletedAt = episode.deletedAt]

RECURSIVE OrderByID(_)
\* the ids in the order of their insertion
OrderByID(ids) ==
    IF ids = {} THEN <<>>
    ELSE LET first == CHOOSE e \in ids : \A o \in ids : e <= o
         IN <<first>> \o OrderByID(ids \ {first})

\* the live episodes of a series, not ordered by seq
EpisodesUnordered(seriesID) ==
    LET Rows(ids) == [i \in 1 .. Len(ids) |-> episodes[ids[i]]]
    IN Rows(OrderByID(LiveEpisodes(episodes, seriesID)))

RECURSIVE OrderBySeq(_)
OrderBySeq(ids) ==
    IF ids = {} THEN <<>>
    ELSE LET first == CHOOSE e \in ids : \A o \in ids :
                        \/ episodes[e].seq < episodes[o].seq
                        \/ episodes[e].seq = episodes[o].seq /\ e <= o
         IN <<first>> \o OrderBySeq(ids \ {first})

\* the episodes of a series by seq, the soft-deleted ones included
seriesQueryWithDeleted(seriesID) ==
    LET Rows(ids) == [i \in 1 .. Len(ids) |-> episodes[ids[i]]]
    IN Rows(OrderBySeq({e \in DOMAIN episodes : episodes[e].seriesID = seriesID}))

\* seriesQuery with IncludeEpisodes: the live episodes of the series by seq
seriesQuery(seriesID) ==
    LET Rows(ids) == [i \in 1 .. Len(ids) |-> episodes[ids[i]]]
    IN Rows(OrderBySeq(LiveEpisodes(episodes, seriesID)))

toDomainSeries(row, rows) ==
    [id |-> row.id,
     slug |-> row.slug,
     status |-> row.status,
     episodeCount |-> row.episodeCount,
     updatedAt |-> row.updatedAt,
     publishedAt |-> row.publishedAt,
     episodes |-> [i \in 1 .. Len(rows) |-> toDomainEpisode(rows[i])]]

GetSeries(id, includeEpisodes) ==
    IF id = NilUUID THEN [err |-> ErrValidation]
    ELSE IF id \notin DOMAIN series THEN [err |-> ErrNotFound]
    ELSE [err |-> OK,
          series |-> toDomainSeries(series[id],
                        IF includeEpisodes THEN seriesQuery(id) ELSE <<>>)]

GetEpisode(id) ==
    IF id = NilUUID THEN [err |-> ErrValidation]
    ELSE IF id \notin DOMAIN episodes THEN [err |-> ErrNotFound]
    ELSE [err |-> OK, episode |-> toDomainEpisode(episodes[id])]

---------------------------------------------------------------------------
(* SeriesService; for its operations the calls of a record are the Repository's *)

FailRepo == {"none", "repo"}

\* a loop that never finds a Seq twice
NoDuplicateSeq(drafts) == FALSE

\* the loop over seqSeen finds a Seq twice
HasDuplicateSeq(drafts) ==
    \E i, j \in 1 .. Len(drafts) : i < j /\ drafts[i].seq = drafts[j].seq

DraftSeqs(drafts) == [i \in 1 .. Len(drafts) |-> drafts[i].seq]

buildEpisodeFromDraft(seriesID, draft, id, now) ==
    LET status == IF draft.status = EpisodeStatusUnspecified
                  THEN EpisodeStatusDraft ELSE draft.status
    IN [id |-> id,
        seriesID |-> seriesID,
        seq |-> draft.seq,
        duration |-> draft.duration,
        status |-> status,
        createdAt |-> now,
        updatedAt |-> now,
        publishedAt |-> IF status = EpisodeStatusPublished THEN now ELSE NoTime,
        deletedAt |-> NoTime]

\* a slice that is empty and not nil
EmptySlice == [nil |-> FALSE, items |-> <<>>]

\* a Go slice of strings: nil, or its items
NilSlice == [nil |-> TRUE, items |-> <<>>]

\* lo.Map with the identity: a slice that is not nil, of the same items
loMap(slice) == [nil |-> FALSE, items |-> slice.items]

\* the core.Series that SeriesService.CreateSeries hands to the Repository for a
\* draft that also carries Tags and AuthorIDs; the i-th episode gets the i-th
\* id after the series'
NewSeries(draft, seriesID, now) ==
    LET status == IF draft.status = SeriesStatusUnspecified
                  THEN SeriesStatusDraft ELSE draft.status
        tags == loMap(draft.tags)
        authorIDs == loMap(draft.authorIDs)
        n == Len(draft.episodes)
    IN [id |-> seriesID,
        slug |-> draft.slug,
        tags |-> IF Len(tags.items) > 0 THEN tags ELSE NilSlice,
        status |-> status,
        createdAt |-> now,
        updatedAt |-> now,
        authorIDs |-> IF Len(authorIDs.items) > 0 THEN authorIDs ELSE NilSlice,
        publishedAt |-> IF status = SeriesStatusPublished THEN now ELSE NoTime,
        episodes |-> [i \in 1 .. n |->
                        buildEpisodeFromDraft(seriesID, draft.episodes[i],
                                              seriesID + i, now)],
        episodeCount |-> n]

CreateSeries(draft, fail) ==
    LET now == clock
        seriesID == uuids + 1
        n == Len(draft.episodes)
        status == IF draft.status = SeriesStatusUnspecified
                  THEN SeriesStatusDraft ELSE draft.status
        built == [i \in 1 .. n |->
                    buildEpisodeFromDraft(seriesID, draft.episodes[i], seriesID + i, now)]
        row == [id |-> seriesID,
                slug |-> draft.slug,
                status |-> status,
                episodeCount |-> n,
                createdAt |-> now,
                updatedAt |-> now,
                publishedAt |-> IF status = SeriesStatusPublished THEN now ELSE NoTime]
        inserted == episodes @@ [e \in {built[i].id : i \in 1 .. n} |->
                        EpisodeCreateRow(seriesID,
                            built[CHOOSE i \in 1 .. n : built[i].id = e])]
        Return(err, calls, writes, out) ==
            last' = Call("CreateSeries",
                         IF err = OK THEN [seqs |-> DraftSeqs(draft.episodes)] ELSE None,
                         err, calls, writes, out)
    IN
    /\ UNCHANGED <<assetVars, clock, inflight>>
    /\ IF HasDuplicateSeq(draft.episodes)
       THEN /\ Return(ErrValidation, <<>>, 0, None)
            /\ UNCHANGED <<seriesVars, uuids>>
       ELSE IF fail = "repo"
       THEN /\ Return(ErrInternal, <<"CreateSeries">>, 0, None)
            /\ UNCHANGED <<seriesVars, uuids>>
       ELSE IF SlugConflict(seriesID, draft.slug) \/ BatchSeqConflict(built)
       THEN /\ Return(ErrConstraint, <<"CreateSeries">>, 0, None)
            /\ UNCHANGED <<seriesVars, uuids>>
       ELSE /\ uuids + 1 + n <= MaxRows
            /\ uuids' = uuids + 1 + n
            /\ episodes' = inserted
            /\ series' = recalcSeriesEpisodeCount(series @@ (seriesID :> row),
                                                  inserted, seriesID, now)
            /\ Return(OK, <<"CreateSeries">>, 1 + n,
                      [id |-> seriesID, episodeIDs |-> {built[i].id : i \in 1 .. n}])

\* a service that stamps PublishedAt on every update of a published entity
PublishedAtStamped(status, publishedAt, now) ==
    IF status = "published" THEN now ELSE publishedAt

\* a service that forgets PublishedAt when the status is not published
PublishedAtWhilePublished(status, publishedAt, now) ==
    IF status # "published" THEN NoTime
    ELSE IF publishedAt = NoTime THEN now ELSE publishedAt

\* PublishedAt as UpdateSeries and UpdateEpisode hand it to the Repository
PublishedAtOnUpdate(status, publishedAt, now) ==
    IF status = "published" /\ publishedAt = NoTime THEN now ELSE publishedAt

UpdateSeries(message, fail) ==
    LET updatedAt == clock
        publishedAt == PublishedAtOnUpdate(message.status, message.publishedAt, updatedAt)
        Return(err, calls, writes) ==
            last' = Call("UpdateSeries",
                         IF err = OK
                         THEN [id |-> message.id, status |-> message.status,
                               publishedAt |-> message.publishedAt,
                               episodeCount |-> message.episodeCount]
                         ELSE None,
                         err, calls, writes, None)
    IN
    /\ UNCHANGED <<assetVars, episodes, uuids, clock, inflight>>
    /\ IF message.id = NilUUID \/ message.status = SeriesStatusUnspecified
       THEN /\ Return(ErrValidation, <<>>, 0)
            /\ UNCHANGED series
       ELSE IF fail = "repo"
       THEN /\ Return(ErrInternal, <<"UpdateSeries">>, 0)
            /\ UNCHANGED series
       ELSE IF message.id \notin DOMAIN series
       THEN /\ Return(ErrNotFound, <<"UpdateSeries">>, 0)
            /\ UNCHANGED series
       ELSE IF SlugConflict(message.id, message.slug)
       THEN /\ Return(ErrConstraint, <<"UpdateSeries">>, 0)
            /\ UNCHANGED series
       ELSE /\ series' = [series EXCEPT ![message.id] =
                            [@ EXCEPT !.slug = message.slug,
                                      !.status = message.status,
                                      !.episodeCount = message.episodeCount,
                                      !.updatedAt = updatedAt,
                                      !.publishedAt = publishedAt]]
            /\ Return(OK, <<"UpdateSeries">>, 1)

CreateEpisode(seriesID, draft, fail) ==
    LET now == clock
        episode == buildEpisodeFromDraft(seriesID, draft, uuids + 1, now)
        inserted == episodes @@ (episode.id :> EpisodeCreateRow(seriesID, episode))
        \* a call that the store rejected keeps the pair it asked for
        Return(err, calls, writes, out) ==
            last' = Call("CreateEpisode",
                         IF err = ErrConstraint
                         THEN [seriesID |-> seriesID, seq |-> draft.seq] ELSE None,
                         err, calls, writes, out)
    IN
    /\ UNCHANGED <<assetVars, clock, inflight>>
    /\ IF seriesID = NilUUID
       THEN /\ Return(ErrValidation, <<>>, 0, None)
            /\ UNCHANGED <<seriesVars, uuids>>
       ELSE IF fail = "repo"
       THEN /\ Return(ErrInternal, <<"CreateEpisode">>, 0, None)
            /\ UNCHANGED <<seriesVars, uuids>>
       ELSE IF seriesID \notin DOMAIN series
               \/ SeqConflict(episodes, episode.id, seriesID, episode.seq)
       THEN /\ Return(ErrConstraint, <<"CreateEpisode">>, 0, None)
            /\ UNCHANGED <<seriesVars, uuids>>
       ELSE /\ uuids + 1 <= MaxRows
            /\ uuids' = uuids + 1
            /\ episodes' = inserted
            /\ series' = recalcSeriesEpisodeCount(series, inserted, seriesID, now)
            /\ Return(OK, <<"CreateEpisode">>, 2, [id |-> episode.id])

UpdateEpisode(message, fail) ==
    LET updatedAt == clock
        episode == [message EXCEPT
                        !.publishedAt = PublishedAtOnUpdate(message.status,
                                            message.publishedAt, updatedAt)]
                   @@ [updatedAt |-> updatedAt]
        updated == [episodes EXCEPT ![message.id] = EpisodeUpdateRow(@, episode)]
        Return(err, calls, writes) ==
            last' = Call("UpdateEpisode",
                         IF err = OK
                         THEN [id |-> message.id, status |-> message.status,
                               publishedAt |-> message.publishedAt]
                         ELSE None,
                         err, calls, writes, None)
    IN
    /\ UNCHANGED <<assetVars, uuids, clock, inflight>>
    /\ IF \/ message.id = NilUUID
          \/ message.seriesID = NilUUID
          \/ message.status = EpisodeStatusUnspecified
       THEN /\ Return(ErrValidation, <<>>, 0)
            /\ UNCHANGED seriesVars
       ELSE IF fail = "repo"
       THEN /\ Return(ErrInternal, <<"UpdateEpisode">>, 0)
            /\ UNCHANGED seriesVars
       ELSE IF message.id \notin DOMAIN episodes
       THEN /\ Return(ErrNotFound, <<"UpdateEpisode">>, 0)
            /\ UNCHANGED seriesVars
       ELSE IF SeqConflict(episodes, message.id, episodes[message.id].seriesID, message.seq)
       THEN /\ Return(ErrConstraint, <<"UpdateEpisode">>, 0)
            /\ UNCHANGED seriesVars
       ELSE /\ episodes' = updated
            \* updateSeriesCountIfNeeded on the series the caller names
            /\ IF message.seriesID \notin DOMAIN series
               THEN /\ Return(ErrInternal, <<"UpdateEpisode">>, 1)
                    /\ UNCHANGED series
               ELSE /\ series' = recalcSeriesEpisodeCount(series, updated,
                                                          message.seriesID, updatedAt)
                    /\ Return(OK, <<"UpdateEpisode">>, 2)

DeleteEpisode(id, fail) ==
    LET now == clock
        deleted == [episodes EXCEPT ![id].status = EpisodeStatusArchived,
                                    ![id].deletedAt = now,
                                    ![id].updatedAt = now]
        Return(err, calls, writes, out) ==
            last' = Call("DeleteEpisode", IF err = OK THEN [id |-> id] ELSE None,
                         err, calls, writes, out)
    IN
    /\ UNCHANGED <<assetVars, uuids, clock, inflight>>
    /\ IF id = NilUUID
       THEN /\ Return(ErrValidation, <<>>, 0, None)
            /\ UNCHANGED seriesVars
       ELSE IF fail = "repo"
       THEN /\ Return(ErrInternal, <<"DeleteEpisode">>, 0, None)
            /\ UNCHANGED seriesVars
       ELSE IF id \notin DOMAIN episodes
       THEN /\ Return(ErrNotFound, <<"DeleteEpisode">>, 0, None)
            /\ UNCHANGED seriesVars
       ELSE IF episodes[id].deletedAt # NoTime
       THEN /\ Return(OK, <<"DeleteEpisode">>, 0,
                      [episode |-> toDomainEpisode(episodes[id]), already |-> TRUE])
            /\ UNCHANGED seriesVars
       ELSE /\ episodes' = deleted
            /\ series' = recalcSeriesEpisodeCount(series, deleted,
                                                  episodes[id].seriesID, now)
            /\ Return(OK, <<"DeleteEpisode">>, 2,
                      [episode |-> toDomainEpisode(deleted[id]), already |-> FALSE])

\* a call of SeriesService.GetSeries
GetSeriesCall(id, includeEpisodes, fail) ==
    LET got == GetSeries(id, includeEpisodes)
        Return(err, calls) ==
            last' = Call("GetSeries", None, err, calls, 0,
                         IF err = OK THEN [id |-> id] ELSE None)
    IN
    /\ UNCHANGED <<assetVars, seriesVars, uuids, clock, inflight>>
    /\ IF id = NilUUID THEN Return(ErrValidation, <<>>)
       ELSE IF fail = "repo" THEN Return(ErrInternal, <<"GetSeries">>)
       ELSE Return(got.err, <<"GetSeries">>)

\* a call of SeriesService.GetEpisode
GetEpisodeCall(id, fail) ==
    LET got == GetEpisode(id)
        Return(err, calls) ==
            last' = Call("GetEpisode", None, err, calls, 0,
                         IF err = OK THEN [id |-> id] ELSE None)
    IN
    /\ UNCHANGED <<assetVars, seriesVars, uuids, clock, inflight>>
    /\ IF id = NilUUID THEN Return(ErrValidation, <<>>)
       ELSE IF fail = "repo" THEN Return(ErrInternal, <<"GetEpisode">>)
       ELSE Return(got.err, <<"GetEpisode">>)

---------------------------------------------------------------------------
(* SeriesRepository called directly: its transactions step by step *)

\* r.client.Tx: the transaction's view of the two tables
TxBegin == [series |-> series, episodes |-> episodes]

\* tx.Commit: the view becomes the stored tables
Commit(tx) ==
    /\ series' = tx.series
    /\ episodes' = tx.episodes

\* a store in which the writes made before a failure stay
RollbackKeepsWrites(tx) == Commit(tx)

\* a store in which a failure undoes the episode writes only
RollbackKeepsSeries(tx) ==
    /\ series' = tx.series
    /\ UNCHANGED episodes

\* tx.Rollback: the view is dropped
Rollback(tx) == UNCHANGED seriesVars

FailCreateSeries ==
    {"none", "Tx", "Series.Save", "Episode.Save", "recalcSeriesEpisodeCount", "Commit"}

RECURSIVE saveEpisodes(_, _, _, _)
\* the loop over series.Episodes in the transaction: each episode is inserted
\* unless its insert fails or breaks the (series_id, seq) index; failAt is the
\* position of the insert that fails, 0 for none
saveEpisodes(tx, seriesID, built, failAt) ==
    IF built = <<>> THEN [err |-> OK, tx |-> tx]
    ELSE LET episode == Head(built)
         IN
         IF failAt = 1 THEN [err |-> ErrInternal, tx |-> tx]
         ELSE IF SeqConflict(tx.episodes, episode.id, seriesID, episode.seq)
         THEN [err |-> ErrConstraint, tx |-> tx]
         ELSE saveEpisodes([tx EXCEPT !.episodes =
                               @ @@ (episode.id :> EpisodeCreateRow(seriesID, episode))],
                           seriesID, Tail(built), failAt - 1)

\* SeriesRepository.CreateSeries on the series and episodes a caller built from
\* a draft
RepositoryCreateSeries(draft, fail) ==
    LET now == clock
        seriesID == uuids + 1
        n == Len(draft.episodes)
        status == IF draft.status = SeriesStatusUnspecified
                  THEN SeriesStatusDraft ELSE draft.status
        built == [i \in 1 .. n |->
                    buildEpisodeFromDraft(seriesID, draft.episodes[i], seriesID + i, now)]
        row == [id |-> seriesID,
                slug |-> draft.slug,
                status |-> status,
                episodeCount |-> n,
                createdAt |-> now,
                updatedAt |-> now,
                publishedAt |-> IF status = SeriesStatusPublished THEN now ELSE NoTime]
        tx0 == TxBegin
        tx1 == [tx0 EXCEPT !.series = @ @@ (seriesID :> row)]
        saved == saveEpisodes(tx1, seriesID, built,
                              IF fail = "Episode.Save" THEN n ELSE 0)
        tx2 == saved.tx
        tx3 == [tx2 EXCEPT !.series =
                   recalcSeriesEpisodeCount(@, tx2.episodes, seriesID, now)]
        Return(err, writes, out) ==
            last' = Call("RepositoryCreateSeries",
                         IF err = OK THEN [seqs |-> DraftSeqs(draft.episodes)] ELSE None,
                         err, <<>>, writes, out)
    IN
    /\ UNCHANGED <<assetVars, clock, inflight>>
    /\ IF fail = "Tx"
       THEN /\ Return(ErrInternal, 0, None)
            /\ UNCHANGED <<seriesVars, uuids>>
       ELSE IF fail = "Series.Save" \/ SlugConflict(seriesID, draft.slug)
       THEN /\ Return(IF fail = "Series.Save" THEN ErrInternal ELSE ErrConstraint, 0, None)
            /\ Rollback(tx0)
            /\ UNCHANGED uuids
       ELSE IF saved.err # OK
       THEN /\ Return(saved.err, 0, None)
            /\ Rollback(tx2)
            /\ UNCHANGED uuids
       ELSE IF fail = "recalcSeriesEpisodeCount"
       THEN /\ Return(ErrInternal, 0, None)
            /\ Rollback(tx2)
            /\ UNCHANGED uuids
       ELSE IF fail = "Commit"
       THEN /\ Return(ErrInternal, 0, None)
            /\ UNCHANGED <<seriesVars, uuids>>
       ELSE /\ uuids + 1 + n <= MaxRows
            /\ Commit(tx3)
            /\ uuids' = uuids + 1 + n
            /\ Return(OK, 1 + n,
                      [id |-> seriesID, episodeIDs |-> {built[i].id : i \in 1 .. n}])

FailDeleteEpisode ==
    {"none", "Tx", "Episode.Get", "Episode.Update", "recalcSeriesEpisodeCount", "Commit"}

\* SeriesRepository.DeleteEpisode
RepositoryDeleteEpisode(id, fail) ==
    LET now == clock
        tx0 == TxBegin
        tx1 == [tx0 EXCEPT !.episodes[id].status = EpisodeStatusArchived,
                           !.episodes[id].deletedAt = now,
                           !.episodes[id].updatedAt = now]
        tx2 == [tx1 EXCEPT !.series =
                   recalcSeriesEpisodeCount(@, tx1.episodes, episodes[id].seriesID, now)]
        Return(err, writes, out) ==
            last' = Call("RepositoryDeleteEpisode", IF err = OK THEN [id |-> id] ELSE None,
                         err, <<>>, writes, out)
    IN
    /\ UNCHANGED <<assetVars, uuids, clock, inflight>>
    /\ IF fail = "Tx"
       THEN /\ Return(ErrInternal, 0, None)
            /\ UNCHANGED seriesVars
       ELSE IF fail = "Episode.Get" \/ id \notin DOMAIN episodes
       THEN /\ Return(IF fail = "Episode.Get" THEN ErrInternal ELSE ErrNotFound, 0, None)
            /\ Rollback(tx0)
       ELSE IF episodes[id].deletedAt # NoTime
       THEN /\ Return(OK, 0, [episode |-> toDomainEpisode(episodes[id]), already |-> TRUE])
            /\ Rollback(tx0)
       ELSE IF fail = "Episode.Update"
       THEN /\ Return(ErrInternal, 0, None)
            /\ Rollback(tx0)
       ELSE IF fail = "recalcSeriesEpisodeCount"
       THEN /\ Return(ErrInternal, 0, None)
            /\ Rollback(tx1)
       ELSE IF fail = "Commit"
       THEN /\ Return(ErrInternal, 0, None)
            /\ UNCHANGED seriesVars
       ELSE /\ Commit(tx2)
            /\ Return(OK, 2, [episode |-> toDomainEpisode(tx2.episodes[id]),
                              already |-> FALSE])

---------------------------------------------------------------------------
(* SeriesHandler: the transport in front of the SeriesService *)

\* the SeriesDraft of an UpdateSeriesRequest
SeriesPatches ==
    [slug : Slugs,
     status : {SeriesStatusUnspecified, SeriesStatusDraft, SeriesStatusPublished}]

\* update masks of the requests: none, supported paths, an unsupported path
SeriesMasks ==
    {<<>>, <<"status">>, <<"title">>, <<"slug", "status">>, <<"published_at">>}

\* the paths used for an empty mask
DefaultSeriesPaths ==
    <<"slug", "title", "summary", "language", "level", "tags", "cover_url",
      "status", "author_ids">>

RECURSIVE applySeriesFieldMask(_, _, _)
applySeriesFieldMask(target, patch, paths) ==
    IF paths = <<>> THEN [err |-> OK, series |-> target]
    ELSE LET path == Head(paths)
             rest == Tail(paths)
         IN
         IF path = "slug"
         THEN applySeriesFieldMask([target EXCEPT !.slug = patch.slug], patch, rest)
         ELSE IF path = "status"
         THEN applySeriesFieldMask([target EXCEPT !.status = patch.status], patch, rest)
         ELSE IF path \in {"title", "summary", "language", "level", "tags",
                           "cover_url", "author_ids"}
         THEN applySeriesFieldMask(target, patch, rest)
         ELSE [err |-> ErrValidation, series |-> target]

\* SeriesHandler.UpdateSeries: GetSeries, apply the mask to what was read,
\* SeriesService.UpdateSeries, SeriesRepository.UpdateSeries
HandlerUpdateSeries(id, patch, mask, fail) ==
    LET existing == GetSeries(id, FALSE)
        paths == IF mask = <<>> THEN DefaultSeriesPaths ELSE mask
        applied == applySeriesFieldMask(existing.series, patch, paths)
        message == applied.series
        updatedAt == clock
        publishedAt == PublishedAtOnUpdate(message.status, message.publishedAt, updatedAt)
        Return(err, calls, writes) ==
            last' = Call("HandlerUpdateSeries",
                         IF err = OK
                         THEN [id |-> id, before |-> existing.series.status,
                               status |-> message.status]
                         ELSE None,
                         err, calls, writes, None)
    IN
    /\ UNCHANGED <<assetVars, episodes, uuids, clock, inflight>>
    /\ IF existing.err # OK
       THEN /\ Return(existing.err, IF id = NilUUID THEN <<>> ELSE <<"GetSeries">>, 0)
            /\ UNCHANGED series
       ELSE IF applied.err # OK
       THEN /\ Return(applied.err, <<"GetSeries">>, 0)
            /\ UNCHANGED series
       ELSE IF message.status = SeriesStatusUnspecified
       THEN /\ Return(ErrValidation, <<"GetSeries">>, 0)
            /\ UNCHANGED series
       ELSE IF fail = "repo"
       THEN /\ Return(ErrInternal, <<"GetSeries", "UpdateSeries">>, 0)
            /\ UNCHANGED series
       ELSE IF SlugConflict(id, message.slug)
       THEN /\ Return(ErrConstraint, <<"GetSeries", "UpdateSeries">>, 0)
            /\ UNCHANGED series
       ELSE /\ series' = [series EXCEPT ![id] =
                            [@ EXCEPT !.slug = message.slug,
                                      !.status = message.status,
                                      !.episodeCount = message.episodeCount,
                                      !.updatedAt = updatedAt,
                                      !.publishedAt = publishedAt]]
            /\ Return(OK, <<"GetSeries", "UpdateSeries">>, 1)

---------------------------------------------------------------------------
(* Calls in progress at once: each call is a sequence of Provider and
   Repository calls, and the calls of two callers interleave *)

Callers == {"a", "b"}

Idle == [pc |-> "idle"]

\* the position and locals of caller p after a step
Goto(p, locals) == inflight' = [inflight EXCEPT ![p] = locals]

\* a caller that has returned
Done(op, err, locals) == [pc |-> "done", op |-> op, err |-> err] @@ locals

\* an UpdateUploadSession that writes only while the stored session is not completed
updateUploadSessionOnce(rows, session) ==
    IF session.id \notin DOMAIN rows THEN [err |-> ErrNotFound, rows |-> rows]
    ELSE IF rows[session.id].status = UploadStatusCompleted
    THEN [err |-> ErrUploadInvalidState, rows |-> rows]
    ELSE [err |-> OK, rows |-> [rows EXCEPT ![session.id] = SessionUpdateRow(@, session)]]

\* AssetRepository.UpdateUploadSession
updateUploadSession(rows, session) ==
    IF session.id \notin DOMAIN rows THEN [err |-> ErrNotFound, rows |-> rows]
    ELSE [err |-> OK, rows |-> [rows EXCEPT ![session.id] = SessionUpdateRow(@, session)]]

\* CompleteUpload up to the switch on the status of the session it has read
CompleteUploadLookup(p, params) ==
    LET found == lookupUploadSession(params.identifier, "none")
    IN
    /\ inflight[p] = Idle
    /\ UNCHANGED <<assetVars, seriesVars, uuids, clock, last>>
    /\ IF params.contentLength < 0
       THEN Goto(p, Done("CompleteUpload", ErrValidation, [provided |-> FALSE]))
       ELSE IF found.err # OK
       THEN Goto(p, Done("CompleteUpload", found.err, [provided |-> FALSE]))
       ELSE IF ~CanComplete(found.row.status)
       THEN Goto(p, Done("CompleteUpload", ErrUploadInvalidState,
                         [provided |-> FALSE, read |-> found.row.status]))
       ELSE Goto(p, [pc |-> "provider.CompleteUpload", session |-> found.row,
                     contentLength |-> params.contentLength])

\* s.provider.CompleteUpload and s.now()
CompleteUploadProvider(p, providerRes) ==
    /\ inflight[p].pc = "provider.CompleteUpload"
    /\ UNCHANGED <<assetVars, seriesVars, uuids, clock, last>>
    /\ Goto(p, [inflight[p] EXCEPT !.pc = "repo.UpdateUploadSession"]
               @@ [providerRes |-> providerRes, now |-> clock])

\* s.repo.UpdateUploadSession with the session read earlier, now completed
CompleteUploadUpdateSession(p) ==
    LET session == CompletedSession(inflight[p].session)
        updated == updateUploadSession(sessions, session)
    IN
    /\ inflight[p].pc = "repo.UpdateUploadSession"
    /\ UNCHANGED <<assets, everReady, seriesVars, uuids, clock, last>>
    /\ sessions' = updated.rows
    /\ IF updated.err # OK
       THEN Goto(p, Done("CompleteUpload", updated.err,
                         [provided |-> TRUE, read |-> inflight[p].session.status]))
       ELSE Goto(p, [inflight[p] EXCEPT !.pc = "repo.GetAssetByKey"])

\* s.repo.GetAssetByKey
CompleteUploadGetAsset(p) ==
    LET got == GetAssetByKey(inflight[p].session.assetKey, "none")
    IN
    /\ inflight[p].pc = "repo.GetAssetByKey"
    /\ UNCHANGED <<assetVars, seriesVars, uuids, clock, last>>
    /\ IF got.err # OK
       THEN Goto(p, Done("CompleteUpload", got.err,
                         [provided |-> TRUE, read |-> inflight[p].session.status]))
       ELSE Goto(p, [inflight[p] EXCEPT !.pc = "repo.UpdateAsset"]
                    @@ [asset |-> toDomainAsset(got.row)])

\* s.repo.UpdateAsset and the return
CompleteUploadUpdateAsset(p) ==
    LET asset == CompletedAsset(inflight[p].asset, inflight[p].providerRes,
                                inflight[p].contentLength, inflight[p].now)
    IN
    /\ inflight[p].pc = "repo.UpdateAsset"
    /\ UNCHANGED <<sessions, seriesVars, uuids, clock, last>>
    /\ IF asset.id \notin DOMAIN assets
       THEN /\ UNCHANGED <<assets, everReady>>
            /\ Goto(p, Done("CompleteUpload", ErrNotFound,
                            [provided |-> TRUE, read |-> inflight[p].session.status]))
       ELSE /\ assets' = [assets EXCEPT ![asset.id] = AssetUpdateRow(@, asset)]
            /\ everReady' = Remember(asset.id, asset.status)
            /\ Goto(p, Done("CompleteUpload", OK,
                            [provided |-> TRUE, read |-> inflight[p].session.status]))

\* DeleteEpisode in a transaction of the store's default isolation: a
\* statement reads the committed rows and the transaction's own writes, an
\* UPDATE waits while another transaction holds a write on its row, and the
\* writes are stored at the commit

\* whether another caller's open transaction has written the episode id
EpisodeLocked(p, id) ==
    \E q \in Callers \ {p} :
        /\ inflight[q].pc \in {"recalc.Count", "recalc.Update", "tx.Commit"}
        /\ inflight[q].id = id

\* whether another caller's open transaction has written the series id
SeriesLocked(p, id) ==
    \E q \in Callers \ {p} :
        /\ inflight[q].pc = "tx.Commit"
        /\ inflight[q].existing.seriesID = id

\* SeriesService.DeleteEpisode up to the test of existing.DeletedAt
DeleteEpisodeGet(p, id) ==
    /\ inflight[p] = Idle
    /\ UNCHANGED <<assetVars, seriesVars, uuids, clock, last>>
    /\ IF id = NilUUID
       THEN Goto(p, Done("DeleteEpisode", ErrValidation, [id |-> id, already |-> FALSE]))
       ELSE IF id \notin DOMAIN episodes
       THEN Goto(p, Done("DeleteEpisode", ErrNotFound, [id |-> id, already |-> FALSE]))
       ELSE IF episodes[id].deletedAt # NoTime
       THEN Goto(p, Done("DeleteEpisode", OK, [id |-> id, already |-> TRUE]))
       ELSE Goto(p, [pc |-> "Episode.Update", id |-> id, existing |-> episodes[id],
                     before |-> series[episodes[id].seriesID].episodeCount])

\* tx.Episode.UpdateOneID(id)...Save
DeleteEpisodeUpdate(p) ==
    LET id == inflight[p].id
        now == clock
    IN
    /\ inflight[p].pc = "Episode.Update"
    /\ ~EpisodeLocked(p, id)
    /\ UNCHANGED <<assetVars, seriesVars, uuids, clock, last>>
    /\ Goto(p, [inflight[p] EXCEPT !.pc = "recalc.Count"]
               @@ [row |-> [episodes[id] EXCEPT !.status = EpisodeStatusArchived,
                                                !.deletedAt = now,
                                                !.updatedAt = now]])

\* recalcSeriesEpisodeCount: the Count query
DeleteEpisodeCount(p) ==
    LET id == inflight[p].id
        seriesID == inflight[p].existing.seriesID
        view == [episodes EXCEPT ![id] = inflight[p].row]
    IN
    /\ inflight[p].pc = "recalc.Count"
    /\ UNCHANGED <<assetVars, seriesVars, uuids, clock, last>>
    /\ Goto(p, [inflight[p] EXCEPT !.pc = "recalc.Update"]
               @@ [count |-> recalcSeriesEpisodeCount(series, view, seriesID, clock)
                                [seriesID].episodeCount])

\* recalcSeriesEpisodeCount: seriesClient.UpdateOneID(seriesID)...Exec
DeleteEpisodeRecount(p) ==
    LET seriesID == inflight[p].existing.seriesID
    IN
    /\ inflight[p].pc = "recalc.Update"
    /\ ~SeriesLocked(p, seriesID)
    /\ UNCHANGED <<assetVars, seriesVars, uuids, clock, last>>
    /\ Goto(p, [inflight[p] EXCEPT !.pc = "tx.Commit"]
               @@ [seriesRow |-> [series[seriesID] EXCEPT
                                     !.episodeCount = inflight[p].count,
                                     !.updatedAt = clock]])

\* tx.Commit and the return
DeleteEpisodeCommit(p) ==
    LET id == inflight[p].id
        seriesID == inflight[p].existing.seriesID
    IN
    /\ inflight[p].pc = "tx.Commit"
    /\ UNCHANGED <<assetVars, uuids, clock, last>>
    /\ episodes' = [episodes EXCEPT ![id] = inflight[p].row]
    /\ series' = [series EXCEPT ![seriesID] = inflight[p].seriesRow]
    /\ Goto(p, Done("DeleteEpisode", OK,
                    [id |-> id, already |-> FALSE, before |-> inflight[p].before]))

\* ListSeries and a caller that follows its page tokens

\* the series a filter matches
MatchingSeries(statuses) ==
    {id \in DOMAIN series : statuses # {} => series[id].status \in statuses}

\* an ORDER BY that breaks ties of created_at by id
OrderByCreatedAtAndID(ids) ==
    {seq \in Orders(ids) :
        \A i, j \in 1 .. Len(seq) :
            i < j => \/ series[seq[i]].createdAt > series[seq[j]].createdAt
                     \/ /\ series[seq[i]].createdAt = series[seq[j]].createdAt
                        /\ seq[i] > seq[j]}

\* Order(entseries.ByCreatedAt(sql.OrderDesc())): the orders a query can return;
\* rows of equal created_at come in any order, query by query
OrderByCreatedAt(ids) ==
    {seq \in Orders(ids) :
        \A i, j \in 1 .. Len(seq) :
            i < j => series[seq[i]].createdAt >= series[seq[j]].createdAt}

\* SeriesService.ListSeries over SeriesRepository.ListSeries: the results the
\* call can return
ListSeries(pageSize, pageToken, statuses, fail) ==
    LET parsed == parseOffset(pageToken)
        limit == IF pageSize <= 0 THEN DefaultPageSize ELSE pageSize
    IN
    IF parsed.err # OK THEN {[err |-> parsed.err, series |-> <<>>, nextToken |-> ""]}
    ELSE IF fail = "repo" THEN {[err |-> ErrInternal, series |-> <<>>, nextToken |-> ""]}
    ELSE {LET rows == Page(order, parsed.offset, limit + 1)
              more == Len(rows) > limit
          IN [err |-> OK,
              series |-> IF more THEN SubSeq(rows, 1, limit) ELSE rows,
              nextToken |-> IF more THEN Itoa(parsed.offset + limit) ELSE ""] :
          order \in OrderByCreatedAt(MatchingSeries(statuses))}

\* ListSeries with IncludeEpisodes: every listed series with its live episodes
\* by seq
ListSeriesWithEpisodes(pageSize, pageToken, statuses) ==
    {[result EXCEPT !.series =
         [i \in 1 .. Len(result.series) |->
             toDomainSeries(series[result.series[i]], seriesQuery(result.series[i]))]] :
     result \in ListSeries(pageSize, pageToken, statuses, "none")}

\* a caller starts to list with the empty token
ListSeriesBegin(p, pageSize, statuses) ==
    /\ inflight[p] = Idle
    /\ UNCHANGED <<assetVars, seriesVars, uuids, clock, last>>
    /\ Goto(p, [pc |-> "ListSeries", pageSize |-> pageSize, statuses |-> statuses,
                pageToken |-> "", seen |-> <<>>])

\* the caller lists one page and keeps its token, until the token is empty
ListSeriesNext(p, fail) ==
    /\ inflight[p].pc = "ListSeries"
    /\ UNCHANGED <<assetVars, seriesVars, uuids, clock, last>>
    /\ \E result \in ListSeries(inflight[p].pageSize, inflight[p].pageToken,
                                inflight[p].statuses, fail) :
         IF result.err # OK
         THEN Goto(p, Done("ListSeries", result.err, [statuses |-> inflight[p].statuses,
                                                      seen |-> inflight[p].seen]))
         ELSE IF result.nextToken = ""
         THEN Goto(p, Done("ListSeries", OK,
                           [statuses |-> inflight[p].statuses,
                            seen |-> inflight[p].seen \o result.series]))
         ELSE Goto(p, [inflight[p] EXCEPT !.pageToken = result.nextToken,
                                          !.seen = @ \o result.series])

\* time passes between calls
Tick ==
    /\ clock < MaxClock
    /\ clock' = clock + 1
    /\ UNCHANGED <<assetVars, seriesVars, uuids, last, inflight>>

---------------------------------------------------------------------------

Init ==
    /\ sessions = <<>>
    /\ assets = <<>>
    /\ everReady = {}
    /\ series = <<>>
    /\ episodes = <<>>
    /\ uuids = 0
    /\ clock = 1
    /\ last = Call("none", None, OK, <<>>, 0, None)
    /\ inflight = [p \in Callers |-> Idle]

NextAsset ==
    \/ \E params \in CreateUploadParams, providerRes \in ProviderCreateUploadResults,
          fail \in FailCreateUpload :
            CreateUpload(params, providerRes, fail)
    \/ \E params \in CompleteUploadParams, providerRes \in ProviderCompleteUploadResults,
          fail \in FailCompleteUpload :
            CompleteUpload(params, providerRes, fail)
    \/ \E id \in {NilUUID} \cup UUIDs, message \in AssetMessages, fail \in FailUpdateAsset :
            UpdateAsset(id, message, fail)
    \/ \E id \in UUIDs, message \in AssetMessages, mask \in UpdateMasks,
          fail \in FailUpdateAsset :
            UpdateAssetMasked(id, message, mask, fail)
    \/ \E id \in {NilUUID} \cup UUIDs, hardDelete \in BOOLEAN :
            DeleteAsset(id, hardDelete)
    \/ Tick

SpecAsset == Init /\ [][NextAsset]_vars

\* the operations that read, change and remove single assets and list them
NextAccess ==
    \/ \E params \in CreateUploadParams, providerRes \in ProviderCreateUploadResults,
          fail \in FailCreateUpload :
            CreateUpload(params, providerRes, fail)
    \/ \E id \in {NilUUID} \cup UUIDs : GetAssetCall(id)
    \/ \E assetKey \in {""} \cup AssetKeys, fail \in {"none", "repo.GetAssetByKey"} :
            GetAssetByKeyCall(assetKey, fail)
    \/ \E pageSize \in {-1, 0, 1}, pageToken \in PageTokens,
          statuses \in {{}, {AssetStatusReady}}, fail \in FailRepo :
            ListAssets(pageSize, pageToken, statuses, fail)
    \/ \E id \in {NilUUID} \cup UUIDs, message \in AssetMessages, fail \in FailUpdateAsset :
            UpdateAsset(id, message, fail)
    \/ \E id \in {NilUUID} \cup UUIDs, hardDelete \in BOOLEAN :
            DeleteAsset(id, hardDelete)
    \/ Tick

SpecAccess == Init /\ [][NextAccess]_vars

\* the drafts of an episode with every status a caller can name
HandedEpisodeDrafts ==
    [seq : Seqs, duration : EpisodeDurations,
     status : {EpisodeStatusUnspecified, EpisodeStatusDraft, EpisodeStatusPublished}]

\* the drafts of a series with Tags and AuthorIDs nil, empty or filled and up
\* to two episodes
HandedSeriesDrafts ==
    LET slices == {NilSlice, [nil |-> FALSE, items |-> <<>>],
                   [nil |-> FALSE, items |-> <<"x">>]}
    IN [slug : Slugs,
        status : {SeriesStatusUnspecified, SeriesStatusDraft, SeriesStatusPublished},
        tags : slices,
        authorIDs : slices,
        episodes : {<<>>} \cup {<<d>> : d \in HandedEpisodeDrafts}
                          \cup {<<d, e>> : d, e \in HandedEpisodeDrafts}]

\* SeriesService.CreateSeries over a Repository that returns what it is handed:
\* the record of the call holds the core.Series of the Repository call
HandCreateSeries(draft) ==
    LET now == clock
        seriesID == uuids + 1
        n == Len(draft.episodes)
    IN
    /\ UNCHANGED <<assetVars, seriesVars, clock, inflight>>
    /\ IF HasDuplicateSeq(draft.episodes)
       THEN /\ last' = Call("CreateSeries", None, ErrValidation, <<>>, 0, None)
            /\ UNCHANGED uuids
       ELSE /\ uuids + 1 + n <= MaxRows
            /\ uuids' = uuids + 1 + n
            /\ last' = Call("CreateSeries", [draft |-> draft, issued |-> uuids, now |-> now],
                            OK, <<"CreateSeries">>, 0,
                            [series |-> NewSeries(draft, seriesID, now)])

\* SeriesService.CreateEpisode over a Repository that returns what it is handed
HandCreateEpisode(seriesID, draft) ==
    LET now == clock
    IN
    /\ UNCHANGED <<assetVars, seriesVars, clock, inflight>>
    /\ IF seriesID = NilUUID
       THEN /\ last' = Call("CreateEpisode", None, ErrValidation, <<>>, 0, None)
            /\ UNCHANGED uuids
       ELSE /\ uuids + 1 <= MaxRows
            /\ uuids' = uuids + 1
            /\ last' = Call("CreateEpisode",
                            [seriesID |-> seriesID, draft |-> draft,
                             issued |-> uuids, now |-> now],
                            OK, <<"CreateEpisode">>, 0,
                            [episode |-> buildEpisodeFromDraft(seriesID, draft,
                                                               uuids + 1, now)])

\* the two creating operations of the SeriesService and the clock
NextHanded ==
    \/ \E draft \in HandedSeriesDrafts : HandCreateSeries(draft)
    \/ \E seriesID \in {NilUUID} \cup RowIDs, draft \in HandedEpisodeDrafts :
            HandCreateEpisode(seriesID, draft)
    \/ Tick

SpecHanded == Init /\ [][NextHanded]_vars

\* the episode drafts of the update requests
EpisodePatches ==
    [seq : Seqs, duration : {2500},
     status : {EpisodeStatusUnspecified, EpisodeStatusReady, EpisodeStatusPublished}]

\* update masks of the requests: none, supported paths, an unsupported path
EpisodeMasks ==
    {<<>>, <<"seq">>, <<"status">>, <<"duration", "title">>, <<"seq", "deleted_at">>}

\* the paths used for an empty mask
DefaultEpisodePaths ==
    <<"seq", "title", "description", "duration", "status", "resource", "transcript">>

\* a mask application that replaces every field whatever the paths are
applyEpisodeWholePatch(target, patch, paths) ==
    [err |-> OK,
     episode |-> [target EXCEPT !.seq = patch.seq, !.duration = patch.duration,
                                !.status = patch.status]]

RECURSIVE applyEpisodeFieldMask(_, _, _)
applyEpisodeFieldMask(target, patch, paths) ==
    IF paths = <<>> THEN [err |-> OK, episode |-> target]
    ELSE LET path == Head(paths)
             rest == Tail(paths)
         IN
         IF path = "seq"
         THEN applyEpisodeFieldMask([target EXCEPT !.seq = patch.seq], patch, rest)
         ELSE IF path = "duration"
         THEN applyEpisodeFieldMask([target EXCEPT !.duration = patch.duration], patch, rest)
         ELSE IF path = "status"
         THEN applyEpisodeFieldMask([target EXCEPT !.status = patch.status], patch, rest)
         ELSE IF path \in {"title", "description", "resource", "resource.asset_id",
                           "resource.type", "resource.playback_url",
                           "resource.mime_type", "transcript", "transcript.language",
                           "transcript.format", "transcript.content"}
         THEN applyEpisodeFieldMask(target, patch, rest)
         ELSE [err |-> ErrValidation, episode |-> target]

\* SeriesHandler.UpdateEpisode: GetEpisode, apply the mask to what was read,
\* SeriesService.UpdateEpisode with the result
HandlerUpdateEpisode(id, patch, mask, fail) ==
    LET existing == GetEpisode(id)
        paths == IF mask = <<>> THEN DefaultEpisodePaths ELSE mask
        applied == applyEpisodeFieldMask(existing.episode, patch, paths)
    IN
    IF existing.err # OK
    THEN /\ last' = Call("UpdateEpisode", None, existing.err,
                         IF id = NilUUID THEN <<>> ELSE <<"GetEpisode">>, 0, None)
         /\ UNCHANGED <<assetVars, seriesVars, uuids, clock, inflight>>
    ELSE IF applied.err # OK
    THEN /\ last' = Call("UpdateEpisode", None, applied.err, <<"GetEpisode">>, 0, None)
         /\ UNCHANGED <<assetVars, seriesVars, uuids, clock, inflight>>
    ELSE \E message \in {[f \in DOMAIN applied.episode \ {"updatedAt"} |->
                                applied.episode[f]]} :
            UpdateEpisode(message, fail)

\* the partial updates of the transport handlers, on a series with at most one
\* episode and an asset that CreateSeries and CreateUpload have stored
NextMask ==
    \/ \E draft \in {d \in SeriesDrafts : Len(d.episodes) <= 1} :
            CreateSeries(draft, "none")
    \/ \E params \in ValidCreateUploadParams,
          providerRes \in {r \in ProviderCreateUploadResults : r.assetKey = "k1"} :
            CreateUpload(params, providerRes, "none")
    \/ \E id \in {NilUUID} \cup RowIDs, patch \in SeriesPatches, mask \in SeriesMasks,
          fail \in FailRepo :
            HandlerUpdateSeries(id, patch, mask, fail)
    \/ \E id \in {NilUUID} \cup RowIDs, patch \in EpisodePatches, mask \in EpisodeMasks,
          fail \in FailRepo :
            HandlerUpdateEpisode(id, patch, mask, fail)
    \/ \E id \in {NilUUID} \cup UUIDs, message \in AssetMessages, fail \in FailUpdateAsset :
            UpdateAsset(id, message, fail)
    \/ \E id \in {NilUUID} \cup UUIDs, message \in AssetMessages, mask \in UpdateMasks,
          fail \in FailUpdateAsset :
            UpdateAssetMasked(id, message, mask, fail)
    \/ Tick

SpecMask == Init /\ [][NextMask]_vars

\* the operations of the AssetService that write, for up to MaxKeyUploads
\* uploads that reach the Repository, each under one of the two asset keys
NextKeys ==
    \/ \E params \in ValidCreateUploadParams, providerRes \in ProviderCreateUploadResults,
          fail \in FailCreateUpload :
            /\ uuids + 2 <= 2 * MaxKeyUploads
            /\ CreateUploadUnbounded(params, providerRes, fail)
    \/ \E id \in 1 .. (2 * MaxKeyUploads), providerRes \in ProviderCompleteUploadResults,
          fail \in {"none", "repo.UpdateAsset"} :
            CompleteUpload([identifier |-> [uploadID |-> id, assetKey |-> ""],
                            contentLength |-> 1], providerRes, fail)
    \/ \E id \in 1 .. (2 * MaxKeyUploads), message \in AssetMessages :
            UpdateAsset(id, message, "none")
    \/ \E id \in 1 .. (2 * MaxKeyUploads), hardDelete \in BOOLEAN :
            DeleteAsset(id, hardDelete)

SpecKeys == Init /\ [][NextKeys]_vars

---------------------------------------------------------------------------
(* The update handlers step by step, next to CreateEpisode and DeleteEpisode:
   a handler reads, then writes, and UpdateEpisode then counts and writes the
   count, each in a statement of its own outside any transaction; the
   transactions of CreateEpisode and DeleteEpisode commit as one step *)

\* SeriesHandler.UpdateSeries up to h.service.GetSeries
HandlerUpdateSeriesGet(p, id) ==
    LET existing == GetSeries(id, FALSE)
    IN
    /\ inflight[p] = Idle
    /\ UNCHANGED <<assetVars, seriesVars, uuids, clock, last>>
    /\ IF existing.err # OK
       THEN Goto(p, Done("UpdateSeries", existing.err, [id |-> id]))
       ELSE Goto(p, [pc |-> "Series.Update", id |-> id, existing |-> existing.series])

\* applySeriesFieldMask on what was read, SeriesService.UpdateSeries and
\* SeriesRepository.UpdateSeries, which sets every column
HandlerUpdateSeriesSave(p, patch, mask) ==
    LET id == inflight[p].id
        paths == IF mask = <<>> THEN DefaultSeriesPaths ELSE mask
        applied == applySeriesFieldMask(inflight[p].existing, patch, paths)
        message == applied.series
        updatedAt == clock
        publishedAt == PublishedAtOnUpdate(message.status, message.publishedAt, updatedAt)
        Return(err) == Goto(p, Done("UpdateSeries", err,
                                    [id |-> id, read |-> inflight[p].existing.episodeCount]))
    IN
    /\ inflight[p].pc = "Series.Update"
    /\ UNCHANGED <<assetVars, episodes, uuids, clock, last>>
    /\ IF applied.err # OK
       THEN Return(applied.err) /\ UNCHANGED series
       ELSE IF message.status = SeriesStatusUnspecified
       THEN Return(ErrValidation) /\ UNCHANGED series
       ELSE IF SlugConflict(id, message.slug)
       THEN Return(ErrConstraint) /\ UNCHANGED series
       ELSE /\ series' = [series EXCEPT ![id] =
                            [@ EXCEPT !.slug = message.slug,
                                      !.status = message.status,
                                      !.episodeCount = message.episodeCount,
                                      !.updatedAt = updatedAt,
                                      !.publishedAt = publishedAt]]
            /\ Return(OK)

\* SeriesHandler.UpdateEpisode up to h.service.GetEpisode
HandlerUpdateEpisodeGet(p, id) ==
    LET existing == GetEpisode(id)
    IN
    /\ inflight[p] = Idle
    /\ UNCHANGED <<assetVars, seriesVars, uuids, clock, last>>
    /\ IF existing.err # OK
       THEN Goto(p, Done("UpdateEpisode", existing.err, [id |-> id]))
       ELSE Goto(p, [pc |-> "Episode.Update", id |-> id, existing |-> existing.episode])

\* applyEpisodeFieldMask on what was read, SeriesService.UpdateEpisode and
\* the Save of SeriesRepository.UpdateEpisode
HandlerUpdateEpisodeSave(p, patch, mask) ==
    LET id == inflight[p].id
        paths == IF mask = <<>> THEN DefaultEpisodePaths ELSE mask
        applied == applyEpisodeFieldMask(inflight[p].existing, patch, paths)
        message == applied.episode
        updatedAt == clock
        episode == [message EXCEPT
                        !.updatedAt = updatedAt,
                        !.publishedAt = PublishedAtOnUpdate(message.status,
                                            message.publishedAt, updatedAt)]
        Return(err) == Goto(p, Done("UpdateEpisode", err, [id |-> id]))
    IN
    /\ inflight[p].pc = "Episode.Update"
    /\ UNCHANGED <<assetVars, series, uuids, clock, last>>
    /\ IF applied.err # OK
       THEN Return(applied.err) /\ UNCHANGED episodes
       ELSE IF message.status = EpisodeStatusUnspecified
       THEN Return(ErrValidation) /\ UNCHANGED episodes
       ELSE IF SeqConflict(episodes, id, episodes[id].seriesID, message.seq)
       THEN Return(ErrConstraint) /\ UNCHANGED episodes
       ELSE /\ episodes' = [episodes EXCEPT ![id] = EpisodeUpdateRow(@, episode)]
            /\ Goto(p, [pc |-> "recalc.Count", id |-> id,
                        seriesID |-> message.seriesID])

\* recalcSeriesEpisodeCount of UpdateEpisode: the Count query
UpdateEpisodeCount(p) ==
    /\ inflight[p].pc = "recalc.Count"
    /\ UNCHANGED <<assetVars, seriesVars, uuids, clock, last>>
    /\ Goto(p, [inflight[p] EXCEPT !.pc = "recalc.Update"]
               @@ [count |-> Cardinality(LiveEpisodes(episodes, inflight[p].seriesID))])

\* recalcSeriesEpisodeCount of UpdateEpisode: seriesClient.UpdateOneID(seriesID)...Exec
UpdateEpisodeRecount(p) ==
    LET seriesID == inflight[p].seriesID
    IN
    /\ inflight[p].pc = "recalc.Update"
    /\ UNCHANGED <<assetVars, episodes, uuids, clock, last>>
    /\ series' = [series EXCEPT ![seriesID].episodeCount = inflight[p].count,
                                ![seriesID].updatedAt = clock]
    /\ Goto(p, Done("UpdateEpisode", OK,
                    [id |-> inflight[p].id, counted |-> inflight[p].count]))

\* the two update handlers in steps, UpdateSeries by one caller and
\* UpdateEpisode by the other, and the two operations that change the number
\* of episodes, on series that CreateSeries has stored; the requests name the
\* status, with or without a mask, and the clock stands still
NextRace ==
    \/ \E draft \in {d \in SeriesDrafts : Len(d.episodes) <= 1} :
            CreateSeries(draft, "none")
    \/ \E seriesID \in RowIDs, draft \in EpisodeDrafts : CreateEpisode(seriesID, draft, "none")
    \/ \E id \in RowIDs : DeleteEpisode(id, "none")
    \/ \E id \in RowIDs : HandlerUpdateSeriesGet("a", id)
    \/ \E patch \in {r \in SeriesPatches : r.status = SeriesStatusDraft},
          mask \in {<<>>, <<"status">>} :
            HandlerUpdateSeriesSave("a", patch, mask)
    \/ \E id \in RowIDs : HandlerUpdateEpisodeGet("b", id)
    \/ \E patch \in {r \in EpisodePatches : r.status = EpisodeStatusReady},
          mask \in {<<>>, <<"status">>} :
            HandlerUpdateEpisodeSave("b", patch, mask)
    \/ UpdateEpisodeCount("b")
    \/ UpdateEpisodeRecount("b")

SpecRace == Init /\ [][NextRace]_vars

\* the two operations that resolve an upload identifier, on the sessions
\* CreateUpload has stored
NextLookup ==
    \/ \E params \in CreateUploadParams, providerRes \in ProviderCreateUploadResults,
          fail \in FailCreateUpload :
            CreateUpload(params, providerRes, fail)
    \/ \E identifier \in UploadIdentifiers, fail \in {"none"} \cup FailLookup :
            GetUploadSession(identifier, fail)
    \/ \E params \in CompleteUploadParams, providerRes \in ProviderCompleteUploadResults,
          fail \in FailCompleteUpload :
            CompleteUpload(params, providerRes, fail)
    \/ Tick

SpecLookup == Init /\ [][NextLookup]_vars

NextSeries ==
    \/ \E draft \in SeriesDrafts, fail \in FailRepo : CreateSeries(draft, fail)
    \/ \E message \in SeriesMessages, fail \in FailRepo : UpdateSeries(message, fail)
    \/ \E seriesID \in {NilUUID} \cup RowIDs, draft \in EpisodeDrafts, fail \in FailRepo :
            CreateEpisode(seriesID, draft, fail)
    \/ \E message \in EpisodeMessages, fail \in FailRepo : UpdateEpisode(message, fail)
    \/ \E id \in {NilUUID} \cup RowIDs, fail \in FailRepo : DeleteEpisode(id, fail)
    \/ Tick

SpecSeries == Init /\ [][NextSeries]_vars

\* the SeriesRepository's two multi-statement transactions
NextRepository ==
    \/ \E draft \in SeriesDrafts, fail \in FailCreateSeries :
            RepositoryCreateSeries(draft, fail)
    \/ \E id \in {NilUUID} \cup RowIDs, fail \in FailDeleteEpisode :
            RepositoryDeleteEpisode(id, fail)
    \/ Tick

SpecRepository == Init /\ [][NextRepository]_vars

\* two callers completing uploads at once, on the sessions CreateUpload stored
NextComplete ==
    \/ \E params \in ValidCreateUploadParams, providerRes \in ProviderCreateUploadResults :
            CreateUpload(params, providerRes, "none")
    \/ \E p \in Callers, id \in UUIDs, contentLength \in CompletedLengths :
            CompleteUploadLookup(p, [identifier |-> [uploadID |-> id, assetKey |-> ""],
                                     contentLength |-> contentLength])
    \/ \E p \in Callers, providerRes \in ProviderCompleteUploadResults :
            CompleteUploadProvider(p, providerRes)
    \/ \E p \in Callers : CompleteUploadUpdateSession(p)
    \/ \E p \in Callers : CompleteUploadGetAsset(p)
    \/ \E p \in Callers : CompleteUploadUpdateAsset(p)
    \/ Tick

SpecComplete == Init /\ [][NextComplete]_vars

\* two callers deleting episodes at once, on the series CreateSeries stored
NextDelete ==
    \/ \E draft \in SeriesDrafts : RepositoryCreateSeries(draft, "none")
    \/ \E p \in Callers, id \in {NilUUID} \cup RowIDs : DeleteEpisodeGet(p, id)
    \/ \E p \in Callers : DeleteEpisodeUpdate(p)
    \/ \E p \in Callers : DeleteEpisodeCount(p)
    \/ \E p \in Callers : DeleteEpisodeRecount(p)
    \/ \E p \in Callers : DeleteEpisodeCommit(p)
    \/ Tick

SpecDelete == Init /\ [][NextDelete]_vars

\* the stores ListSeries is applied to: up to MaxListed series created at times
\* that may coincide, each with its own slug
ListedSeries ==
    UNION {[1 .. n -> [status : {SeriesStatusDraft, SeriesStatusPublished},
                       createdAt : 1 .. MaxListed]] : n \in 0 .. MaxListed}

InitList ==
    /\ sessions = <<>>
    /\ assets = <<>>
    /\ everReady = {}
    /\ \E listed \in ListedSeries :
         series = [id \in DOMAIN listed |->
                     [id |-> id,
                      slug |-> id,
                      status |-> listed[id].status,
                      episodeCount |-> 0,
                      createdAt |-> listed[id].createdAt,
                      updatedAt |-> listed[id].createdAt,
                      publishedAt |-> IF listed[id].status = SeriesStatusPublished
                                      THEN listed[id].createdAt ELSE NoTime]]
    /\ episodes = <<>>
    /\ uuids = MaxListed
    /\ clock = MaxListed
    /\ last = Call("none", None, OK, <<>>, 0, None)
    /\ inflight = [p \in Callers |-> Idle]

\* one caller paging through a store that does not change
NextList ==
    \/ \E pageSize \in {0, 1, 2}, statuses \in {{}, {SeriesStatusPublished}} :
            ListSeriesBegin("a", pageSize, statuses)
    \/ \E fail \in FailRepo : ListSeriesNext("a", fail)

SpecList == InitList /\ [][NextList]_vars

\* the series as the transport's clients can change it
NextTransport ==
    \/ \E draft \in SeriesDrafts, fail \in FailRepo : CreateSeries(draft, fail)
    \/ \E id \in {NilUUID} \cup RowIDs, patch \in SeriesPatches, mask \in SeriesMasks,
          fail \in FailRepo :
            HandlerUpdateSeries(id, patch, mask, fail)
    \/ \E id \in {NilUUID} \cup RowIDs, fail \in FailRepo : DeleteEpisode(id, fail)
    \/ Tick

SpecTransport == Init /\ [][NextTransport]_vars

\* the operations of both services that validate their input, within one
\* instant: no validation reads the clock
NextValidation ==
    \/ \E params \in CreateUploadParams, providerRes \in ProviderCreateUploadResults,
          fail \in FailCreateUpload :
            CreateUpload(params, providerRes, fail)
    \/ \E params \in CompleteUploadParams, providerRes \in ProviderCompleteUploadResults,
          fail \in FailCompleteUpload :
            CompleteUpload(params, providerRes, fail)
    \/ \E draft \in SeriesDrafts, fail \in FailRepo : CreateSeries(draft, fail)
    \/ \E id \in {NilUUID} \cup RowIDs, includeEpisodes \in BOOLEAN, fail \in FailRepo :
            GetSeriesCall(id, includeEpisodes, fail)
    \/ \E message \in SeriesMessages, fail \in FailRepo : UpdateSeries(message, fail)
    \/ \E seriesID \in {NilUUID} \cup RowIDs, draft \in EpisodeDrafts, fail \in FailRepo :
            CreateEpisode(seriesID, draft, fail)
    \/ \E id \in {NilUUID} \cup RowIDs, fail \in FailRepo : GetEpisodeCall(id, fail)
    \/ \E message \in EpisodeMessages, fail \in FailRepo : UpdateEpisode(message, fail)
    \/ \E id \in {NilUUID} \cup RowIDs, fail \in FailRepo : DeleteEpisode(id, fail)


SpecValidation == Init /\ [][NextValidation]_vars

---------------------------------------------------------------------------
(* Upload sessions and assets *)

\* the order of the UploadStatus constants
UploadStatusRank(status) ==
    CASE status = UploadStatusUnspecified -> 0
      [] status = UploadStatusAwaitingUpload -> 1
      [] status = UploadStatusUploading -> 2
      [] status = UploadStatusCompleted -> 3
      [] status = UploadStatusExpired -> 4
      [] status = UploadStatusFailed -> 5

\* C1: a CompleteUpload that directly follows a successful CompleteUpload with
\* the same identifier (given a content length >= 0, and with the Repository
\* answering the lookup) fails with ErrUploadInvalidState, calls no Provider,
\* writes nothing, and leaves the stored sessions and assets as they were.
C1_SecondCompleteUploadRejected ==
    [][(last.op = "CompleteUpload" /\ last.err = OK /\ last'.op = "CompleteUpload")
        => \A params \in CompleteUploadParams,
              providerRes \in ProviderCompleteUploadResults,
              fail \in FailCompleteUpload \ FailLookup :
                (/\ params.identifier = last.in.identifier
                 /\ params.contentLength >= 0
                 /\ CompleteUpload(params, providerRes, fail))
                => /\ last'.err = ErrUploadInvalidState
                   /\ last'.calls = <<>>
                   /\ last'.writes = 0
                   /\ sessions' = sessions
                   /\ assets' = assets]_vars

\* a second CompleteUpload with the identifier of the first has been rejected
C1_Witness ==
    /\ last.op = "CompleteUpload"
    /\ last.in.again
    /\ last.in.sid # NilUUID
    /\ last.err = ErrUploadInvalidState
    /\ sessions[last.in.sid].status = UploadStatusCompleted

\* C2: a CreateUpload that succeeds returns a session in status awaiting-upload
\* and an asset whose status is pending when the Provider's estimate is
\* unspecified and the estimate otherwise; both carry the Provider's AssetKey.
C2_CreateUploadResult ==
    (last.op = "CreateUpload" /\ last.err = OK)
    => /\ last.out.session.status = UploadStatusAwaitingUpload
       /\ last.out.asset.status =
            (IF last.out.providerRes.estimatedStatus = AssetStatusUnspecified
             THEN AssetStatusPending
             ELSE last.out.providerRes.estimatedStatus)
       /\ last.out.session.assetKey = last.out.providerRes.assetKey
       /\ last.out.asset.assetKey = last.out.providerRes.assetKey
       /\ sessions[last.out.session.id] = last.out.session

\* a CreateUpload has succeeded with an estimate from the Provider
C2_Witness ==
    /\ last.op = "CreateUpload"
    /\ last.err = OK
    /\ last.out.providerRes.estimatedStatus = AssetStatusProcessing
    /\ last.out.asset.status = AssetStatusProcessing
    /\ last.out.session.status = UploadStatusAwaitingUpload

\* C3: a successful CompleteUpload leaves the stored session completed and the
\* stored asset of the same AssetKey ready, with the Provider's playback URL and
\* duration, the content length of the call as Filesize, and the clock of the
\* call as ReadyAt.
C3_CompleteUploadStored ==
    [][(last'.op = "CompleteUpload" /\ last'.err = OK /\ clock' = clock)
        => LET session == sessions'[last'.in.sid]
               asset == toDomainAsset(assets'[last'.out.asset.id])
           IN /\ session.status = UploadStatusCompleted
              /\ asset.assetKey = session.assetKey
              /\ asset.status = AssetStatusReady
              /\ asset.playbackURL = last'.out.providerRes.playbackURL
              /\ asset.duration = last'.out.providerRes.duration
              /\ asset.filesize = last'.in.contentLength
              /\ asset.readyAt = clock']_vars

\* a successful CompleteUpload whose stored duration is not the Provider's
C3_Witness ==
    /\ last.op = "CompleteUpload"
    /\ last.err = OK
    /\ last.out.asset.id \in DOMAIN assets
    /\ assets[last.out.asset.id].status = AssetStatusReady
    /\ toDomainAsset(assets[last.out.asset.id]).duration # last.out.providerRes.duration
    /\ toDomainAsset(assets[last.out.asset.id]).filesize = last.in.contentLength

\* C4: the status of a stored session never moves backwards, a completed
\* session stays completed, and a CompleteUpload that resolves to a completed
\* session is rejected.
C4_SessionStatusForward ==
    [][/\ \A id \in DOMAIN sessions :
            /\ id \in DOMAIN sessions'
            /\ UploadStatusRank(sessions'[id].status) >= UploadStatusRank(sessions[id].status)
            /\ sessions[id].status = UploadStatusCompleted
               => sessions'[id].status = UploadStatusCompleted
       /\ (/\ last'.op = "CompleteUpload"
           /\ clock' = clock
           /\ last'.in.sid \in DOMAIN sessions
           /\ sessions[last'.in.sid].status = UploadStatusCompleted)
          => /\ last'.err = ErrUploadInvalidState
             /\ last'.writes = 0]_vars

\* a CompleteUpload on a completed session has been rejected, not directly
\* after the call that completed it
C4_Witness ==
    /\ last.op = "CompleteUpload"
    /\ ~last.in.again
    /\ last.in.sid \in DOMAIN sessions
    /\ sessions[last.in.sid].status = UploadStatusCompleted
    /\ last.err = ErrUploadInvalidState

\* C5: a stored asset has ReadyAt set if and only if its status has been ready
\* at some point.
C5_ReadyAtIffEverReady ==
    \A id \in DOMAIN assets :
        (assets[id].readyAt # NoTime) <=> (id \in everReady)

\* an asset that has been ready and has no ReadyAt, after an UpdateAsset
C5_Witness ==
    /\ last.op \in {"UpdateAsset", "UpdateAssetMasked"}
    /\ last.err = OK
    /\ \E id \in DOMAIN assets :
        /\ assets[id].status = AssetStatusReady
        /\ id \in everReady
        /\ assets[id].readyAt = NoTime

---------------------------------------------------------------------------
(* Series and episodes *)

\* C6: after a call that completed without error, every stored series has
\* EpisodeCount equal to the number of its stored episodes with DeletedAt unset.
C6_EpisodeCountIsLiveCount ==
    last.err = OK
    => \A s \in DOMAIN series :
        series[s].episodeCount =
            Cardinality({e \in DOMAIN episodes :
                            episodes[e].seriesID = s /\ episodes[e].deletedAt = NoTime})

\* an UpdateSeries has completed and left a count that is not the live count
C6_Witness ==
    /\ last.op = "UpdateSeries"
    /\ last.err = OK
    /\ series[last.in.id].episodeCount = last.in.episodeCount
    /\ series[last.in.id].episodeCount # Cardinality(LiveEpisodes(episodes, last.in.id))

\* C7: DeleteEpisode on an episode that is not deleted sets its status to
\* archived and its DeletedAt, and lowers the EpisodeCount of its series by 1;
\* on a deleted episode it returns the stored DeletedAt without error and
\* changes neither the episodes nor the series.
C7_DeleteEpisode ==
    [][(last'.op = "DeleteEpisode" /\ last'.err = OK /\ clock' = clock)
        => LET id == last'.in.id
               owner == episodes[id].seriesID
           IN IF episodes[id].deletedAt = NoTime
              THEN /\ episodes'[id].status = EpisodeStatusArchived
                   /\ episodes'[id].deletedAt # NoTime
                   /\ series'[owner].episodeCount = series[owner].episodeCount - 1
              ELSE /\ last'.out.episode.deletedAt = episodes[id].deletedAt
                   /\ episodes' = episodes
                   /\ series' = series]_vars

\* a DeleteEpisode has archived an episode and recounted its series
C7_Witness ==
    /\ last.op = "DeleteEpisode"
    /\ last.err = OK
    /\ ~last.out.already
    /\ episodes[last.in.id].status = EpisodeStatusArchived
    /\ episodes[last.in.id].deletedAt # NoTime
    /\ series[episodes[last.in.id].seriesID].episodeCount =
         Cardinality(LiveEpisodes(episodes, episodes[last.in.id].seriesID))

\* C8: CreateSeries with a draft in which two episodes carry the same Seq fails
\* with ErrValidation, does not call the Repository, and stores nothing.
C8_DuplicateSeqRejected ==
    [][last'.op = "CreateSeries"
        => \A draft \in SeriesDrafts, fail \in FailRepo :
            (/\ \E i, j \in DOMAIN draft.episodes :
                    i # j /\ draft.episodes[i].seq = draft.episodes[j].seq
             /\ CreateSeries(draft, fail))
            => /\ last'.err = ErrValidation
               /\ last'.calls = <<>>
               /\ last'.writes = 0
               /\ series' = series
               /\ episodes' = episodes]_vars

\* a CreateSeries has failed validation, after another one stored a series
C8_Witness ==
    /\ last.op = "CreateSeries"
    /\ last.err = ErrValidation
    /\ last.calls = <<>>
    /\ DOMAIN series # {}

\* C9: after CreateSeries has stored a series with N episodes, its EpisodeCount
\* is N and GetSeries with IncludeEpisodes returns exactly the N episodes of the
\* draft, in ascending order of Seq.
C9_CreateSeriesRoundTrip ==
    (last.op = "CreateSeries" /\ last.err = OK)
    => LET n == Len(last.in.seqs)
           got == GetSeries(last.out.id, TRUE)
       IN /\ series[last.out.id].episodeCount = n
          /\ got.err = OK
          /\ got.series.episodeCount = n
          /\ Len(got.series.episodes) = n
          /\ {got.series.episodes[i].id : i \in 1 .. n} = last.out.episodeIDs
          /\ {got.series.episodes[i].seq : i \in 1 .. n} = {last.in.seqs[i] : i \in 1 .. n}
          /\ \A i \in 1 .. n : got.series.episodes[i].seriesID = last.out.id
          /\ \A i, j \in 1 .. n :
                i < j => got.series.episodes[i].seq < got.series.episodes[j].seq

\* a series created from a draft with Seq 2 before Seq 1 reads back as 1, 2
C9_Witness ==
    /\ last.op = "CreateSeries"
    /\ last.err = OK
    /\ last.in.seqs = <<2, 1>>
    /\ Len(GetSeries(last.out.id, TRUE).series.episodes) = 2
    /\ GetSeries(last.out.id, TRUE).series.episodes[1].seq = 1
    /\ GetSeries(last.out.id, TRUE).series.episodes[2].seq = 2

\* C10: an UpdateSeries or UpdateEpisode with status published stores the clock
\* of the call as UpdatedAt and, as PublishedAt, that same value when the entity
\* handed in has none, and the PublishedAt handed in otherwise.
C10_PublishedAtOnUpdate ==
    [][(last'.err = OK /\ clock' = clock)
        => /\ (last'.op = "UpdateSeries" /\ last'.in.status = SeriesStatusPublished)
              => LET row == series'[last'.in.id]
                 IN /\ row.updatedAt = clock
                    /\ row.publishedAt =
                         (IF last'.in.publishedAt = NoTime THEN row.updatedAt
                          ELSE last'.in.publishedAt)
                    /\ last'.in.publishedAt = series[last'.in.id].publishedAt
                       /\ last'.in.publishedAt # NoTime
                       => row.publishedAt = series[last'.in.id].publishedAt
           /\ (last'.op = "UpdateEpisode" /\ last'.in.status = EpisodeStatusPublished)
              => LET row == episodes'[last'.in.id]
                 IN /\ row.updatedAt = clock
                    /\ row.publishedAt =
                         (IF last'.in.publishedAt = NoTime THEN row.updatedAt
                          ELSE last'.in.publishedAt)
                    /\ last'.in.publishedAt = episodes[last'.in.id].publishedAt
                       /\ last'.in.publishedAt # NoTime
                       => row.publishedAt = episodes[last'.in.id].publishedAt]_vars

\* an episode published at 1 has been updated at 2, still published, and kept
\* its PublishedAt; its series was stamped by an update at 2
C10_Witness ==
    /\ last.op = "UpdateEpisode"
    /\ last.err = OK
    /\ last.in.status = EpisodeStatusPublished
    /\ last.in.publishedAt = 1
    /\ episodes[last.in.id].publishedAt = 1
    /\ episodes[last.in.id].updatedAt = 2
    /\ \E s \in DOMAIN series :
        /\ series[s].status = SeriesStatusPublished
        /\ series[s].publishedAt = 2

---------------------------------------------------------------------------
(* Transport, lookups and validation *)

\* C11: through the handler's UpdateSeries, once the stored PublishedAt of a
\* series is set it is never cleared and never replaced.
C11_PublishedAtKept ==
    [][\A s \in DOMAIN series :
        series[s].publishedAt # NoTime
        => /\ s \in DOMAIN series'
           /\ series'[s].publishedAt = series[s].publishedAt]_vars

\* a series published at 1 and taken back to draft has been published again at
\* 2 and still carries PublishedAt 1
C11_Witness ==
    /\ last.op = "HandlerUpdateSeries"
    /\ last.err = OK
    /\ last.in.before = SeriesStatusDraft
    /\ last.in.status = SeriesStatusPublished
    /\ series[last.in.id].publishedAt = 1
    /\ series[last.in.id].updatedAt = 2

\* what the resolution rule of C12 prescribes for an identifier, stated on the
\* stored sessions: the error, the session and the Repository lookups in order
C12_Resolution(id, fail) ==
    LET keyed == {sid \in DOMAIN sessions : sessions[sid].assetKey = id.assetKey}
        ByKey(before) ==
            IF fail = "repo.GetUploadSessionByAssetKey"
            THEN [err |-> ErrInternal, sid |-> NilUUID,
                  reads |-> before \o <<"GetUploadSessionByAssetKey">>]
            ELSE IF keyed = {}
            THEN [err |-> ErrNotFound, sid |-> NilUUID,
                  reads |-> before \o <<"GetUploadSessionByAssetKey">>]
            ELSE [err |-> OK, sid |-> CHOOSE sid \in keyed : TRUE,
                  reads |-> before \o <<"GetUploadSessionByAssetKey">>]
    IN
    CASE id.uploadID = NilUUID /\ id.assetKey = ""
           -> [err |-> ErrUploadIdentifierRequired, sid |-> NilUUID, reads |-> <<>>]
      [] id.uploadID = NilUUID /\ id.assetKey # ""
           -> ByKey(<<>>)
      [] id.uploadID # NilUUID /\ fail = "repo.GetUploadSessionByID"
           -> [err |-> ErrInternal, sid |-> NilUUID, reads |-> <<"GetUploadSessionByID">>]
      [] id.uploadID # NilUUID /\ fail # "repo.GetUploadSessionByID"
         /\ id.uploadID \in DOMAIN sessions
           -> [err |-> OK, sid |-> id.uploadID, reads |-> <<"GetUploadSessionByID">>]
      [] id.uploadID # NilUUID /\ fail # "repo.GetUploadSessionByID"
         /\ id.uploadID \notin DOMAIN sessions /\ id.assetKey = ""
           -> [err |-> ErrNotFound, sid |-> NilUUID, reads |-> <<"GetUploadSessionByID">>]
      [] OTHER
           -> ByKey(<<"GetUploadSessionByID">>)

\* C12: GetUploadSession and CompleteUpload resolve an identifier by the rule:
\* neither ID nor key is ErrUploadIdentifierRequired with no lookup; the ID is
\* looked up first and its session returned; a not-found ID falls back to the
\* key only when a key is given and is ErrNotFound otherwise; any other error
\* of the ID lookup is returned with no key lookup; a key alone is looked up
\* by key. In no state can either call end otherwise.
C12_LookupResolution ==
    /\ \A identifier \in UploadIdentifiers, fail \in {"none"} \cup FailLookup :
         LET r == C12_Resolution(identifier, fail)
         IN ~ENABLED (/\ GetUploadSession(identifier, fail)
                      /\ ~(/\ last'.err = r.err
                           /\ last'.out.session.id = r.sid
                           /\ last'.out.reads = r.reads
                           /\ UNCHANGED <<assetVars, seriesVars>>))
    /\ \A params \in CompleteUploadParams,
          providerRes \in ProviderCompleteUploadResults, fail \in FailCompleteUpload :
         LET r == C12_Resolution(params.identifier, fail)
         IN params.contentLength >= 0
            => ~ENABLED (/\ CompleteUpload(params, providerRes, fail)
                         /\ ~(/\ last'.in.sid = r.sid
                              /\ last'.in.reads = r.reads
                              /\ r.err # OK => /\ last'.err = r.err
                                               /\ last'.calls = <<>>
                                               /\ UNCHANGED <<assetVars, seriesVars>>))

\* a lookup whose ID names no session has fallen back to the key and found the
\* session there
C12_Witness ==
    /\ last.op = "GetUploadSession"
    /\ last.err = OK
    /\ last.out.reads = <<"GetUploadSessionByID", "GetUploadSessionByAssetKey">>
    /\ last.out.session.id \in DOMAIN sessions

\* the outcome C13 prescribes for a call whose input fails validation
C13_Rejected ==
    /\ last'.err = ErrValidation
    /\ last'.calls = <<>>
    /\ last'.writes = 0
    /\ UNCHANGED <<assetVars, seriesVars>>

\* C13: an operation of the Asset Service or the Series Service whose input
\* fails its validation returns ErrValidation, makes no Provider call and no
\* Repository call, and leaves the stored state unchanged, also when the
\* Provider or the Repository would have failed: in no state can such a call
\* end otherwise.
C13_ValidationFirst ==
    /\ \A params \in InvalidCreateUploadParams,
          providerRes \in ProviderCreateUploadResults, fail \in FailCreateUpload :
         ~ENABLED (CreateUpload(params, providerRes, fail) /\ ~C13_Rejected)
    /\ \A params \in CompleteUploadParams,
          providerRes \in ProviderCompleteUploadResults, fail \in FailCompleteUpload :
         params.contentLength < 0
         => ~ENABLED (/\ CompleteUpload(params, providerRes, fail)
                      /\ ~(C13_Rejected /\ last'.in.reads = <<>>))
    /\ \A draft \in EpisodeDrafts, fail \in FailRepo :
         ~ENABLED (CreateEpisode(NilUUID, draft, fail) /\ ~C13_Rejected)
    /\ \A message \in SeriesMessages, fail \in FailRepo :
         message.id = NilUUID \/ message.status = SeriesStatusUnspecified
         => ~ENABLED (UpdateSeries(message, fail) /\ ~C13_Rejected)
    /\ \A message \in EpisodeMessages, fail \in FailRepo :
         \/ message.id = NilUUID
         \/ message.seriesID = NilUUID
         \/ message.status = EpisodeStatusUnspecified
         => ~ENABLED (UpdateEpisode(message, fail) /\ ~C13_Rejected)
    /\ \A includeEpisodes \in BOOLEAN, fail \in FailRepo :
         ~ENABLED (GetSeriesCall(NilUUID, includeEpisodes, fail) /\ ~C13_Rejected)
    /\ \A fail \in FailRepo :
         /\ ~ENABLED (GetEpisodeCall(NilUUID, fail) /\ ~C13_Rejected)
         /\ ~ENABLED (DeleteEpisode(NilUUID, fail) /\ ~C13_Rejected)

\* an upload, a series and an episode are stored and the last call was
\* rejected by validation
C13_Witness ==
    /\ last.err = ErrValidation
    /\ last.op \in {"CreateUpload", "UpdateEpisode"}
    /\ last.calls = <<>>
    /\ last.writes = 0
    /\ DOMAIN series # {}
    /\ \/ DOMAIN sessions # {}
       \/ DOMAIN episodes # {}

\* the outcome C14 prescribes: a Validation error and nothing handed to the
\* Repository
C14_Rejected ==
    /\ last'.err = ErrValidation
    /\ last'.writes = 0
    /\ UNCHANGED <<assetVars, seriesVars>>

\* UpdateAsset and DeleteAsset with a nil ID, GetAssetByKey with an empty key
\* and ListAssets with a negative page size cannot end otherwise than rejected
C14_OthersValidate ==
    /\ \A message \in AssetMessages, fail \in FailUpdateAsset :
         ~ENABLED (UpdateAsset(NilUUID, message, fail) /\ ~C14_Rejected)
    /\ \A hardDelete \in BOOLEAN :
         ~ENABLED (DeleteAsset(NilUUID, hardDelete) /\ ~C14_Rejected)
    /\ \A fail \in {"none", "repo.GetAssetByKey"} :
         ~ENABLED (/\ GetAssetByKeyCall("", fail)
                   /\ ~(C14_Rejected /\ last'.out.reads = <<>>))
    /\ \A pageToken \in PageTokens, statuses \in {{}, {AssetStatusReady}}, fail \in FailRepo :
         ~ENABLED (/\ ListAssets(-1, pageToken, statuses, fail)
                   /\ ~(C14_Rejected /\ last'.out.reads = <<>>))

\* C14: GetAsset, UpdateAsset and DeleteAsset with a nil asset ID,
\* GetAssetByKey with an empty key and ListAssets with a negative page size
\* fail with a Validation error and are not passed to the Repository.
C14_AssetValidation ==
    /\ ~ENABLED (GetAssetCall(NilUUID) /\ ~(C14_Rejected /\ last'.out.reads = <<>>))
    /\ C14_OthersValidate

\* GetAsset with a nil ID has been handed to the Repository and come back as
\* not found
C14_Witness ==
    /\ last.op = "GetAsset"
    /\ last.in.id = NilUUID
    /\ last.err = ErrNotFound
    /\ last.out.reads = <<"GetAssetByID">>
    /\ DOMAIN assets # {}

---------------------------------------------------------------------------
(* Ordering and atomicity *)

\* C15: CreateUpload calls the Provider first, then persists the session, then
\* the asset. A failing Provider leaves nothing persisted; a failing session
\* insert comes after the Provider call and leaves nothing persisted; a failing
\* asset insert comes after the session is stored, is returned, and leaves the
\* session persisted with no asset of its key.
C15_CreateUploadOrder ==
    \A params \in ValidCreateUploadParams, providerRes \in ProviderCreateUploadResults :
      /\ ~ENABLED (/\ CreateUpload(params, providerRes, "provider.CreateUpload")
                   /\ ~(/\ last'.err = ErrInternal
                        /\ last'.calls = <<"CreateUpload">>
                        /\ last'.writes = 0
                        /\ UNCHANGED assetVars))
      /\ ~ENABLED (/\ CreateUpload(params, providerRes, "repo.CreateUploadSession")
                   /\ ~(/\ last'.err = ErrInternal
                        /\ last'.calls = <<"CreateUpload">>
                        /\ last'.writes = 0
                        /\ UNCHANGED assetVars))
      /\ ~ENABLED (/\ CreateUpload(params, providerRes, "repo.CreateAsset")
                   /\ ~SessionInsertConflict(NewUploadSession(params, providerRes, uuids + 1))
                   /\ ~(/\ last'.err = ErrInternal
                        /\ last'.calls = <<"CreateUpload">>
                        /\ last'.writes = 1
                        /\ \E sid \in DOMAIN sessions' \ DOMAIN sessions :
                             /\ DOMAIN sessions' = DOMAIN sessions \cup {sid}
                             /\ sessions'[sid].assetKey = providerRes.assetKey
                             /\ sessions'[sid].status = UploadStatusAwaitingUpload
                             /\ \A a \in DOMAIN assets' :
                                  assets'[a].assetKey # providerRes.assetKey
                        /\ \A sid \in DOMAIN sessions : sessions'[sid] = sessions[sid]
                        /\ UNCHANGED <<assets, everReady>>))
      /\ ~ENABLED (/\ CreateUpload(params, providerRes, "none")
                   /\ ~SessionInsertConflict(NewUploadSession(params, providerRes, uuids + 1))
                   /\ ~AssetInsertConflict(NewAsset(params, providerRes, uuids + 2, clock))
                   /\ ~(/\ last'.err = OK
                        /\ last'.calls = <<"CreateUpload">>
                        /\ last'.writes = 2
                        /\ \E sid \in DOMAIN sessions' \ DOMAIN sessions,
                              aid \in DOMAIN assets' \ DOMAIN assets :
                             sessions'[sid].assetKey = assets'[aid].assetKey))

\* a CreateUpload whose asset insert failed has returned the error and left its
\* session behind without an asset
C15_Witness ==
    /\ last.op = "CreateUpload"
    /\ last.err = ErrInternal
    /\ last.writes = 1
    /\ \E sid \in DOMAIN sessions :
         \A a \in DOMAIN assets : assets[a].assetKey # sessions[sid].assetKey

\* C16: the Repository's DeleteEpisode is atomic. A call ends either with the
\* episode archived, its DeletedAt set and the series' EpisodeCount equal to
\* the recomputed count, or with neither change stored; a call whose recount
\* fails returns an error and leaves the episode not deleted.
C16_DeleteEpisodeAtomic ==
    \A id \in RowIDs, fail \in FailDeleteEpisode :
      id \in DOMAIN episodes /\ episodes[id].deletedAt = NoTime
      => LET sid == episodes[id].seriesID
             Both ==
                 /\ last'.err = OK
                 /\ episodes' = [episodes EXCEPT ![id].status = EpisodeStatusArchived,
                                                 ![id].deletedAt = clock,
                                                 ![id].updatedAt = clock]
                 /\ series'[sid].episodeCount = Cardinality(LiveEpisodes(episodes', sid))
                 /\ \A o \in DOMAIN series \ {sid} : series'[o] = series[o]
                 /\ DOMAIN series' = DOMAIN series
             Neither ==
                 /\ last'.err # OK
                 /\ UNCHANGED seriesVars
         IN /\ ~ENABLED (RepositoryDeleteEpisode(id, fail) /\ ~(Both \/ Neither))
            /\ fail = "recalcSeriesEpisodeCount"
               => ~ENABLED (RepositoryDeleteEpisode(id, fail) /\ ~Neither)
            /\ fail = "none"
               => ~ENABLED (RepositoryDeleteEpisode(id, fail) /\ ~Both)

\* a delete has been stored whole: the episode is archived with DeletedAt set
\* and the count of its series is the number of its live episodes, one of
\* which is left
C16_Witness ==
    /\ last.op = "RepositoryDeleteEpisode"
    /\ last.err = OK
    /\ last.writes = 2
    /\ episodes[last.in.id].status = EpisodeStatusArchived
    /\ episodes[last.in.id].deletedAt # NoTime
    /\ series[episodes[last.in.id].seriesID].episodeCount = 1
    /\ Cardinality(LiveEpisodes(episodes, episodes[last.in.id].seriesID)) = 1

\* C17: the Repository's CreateSeries is all-or-nothing. When the series
\* insert, an episode insert (also for a slug or (series_id, seq) uniqueness
\* violation) or the recount fails, the call returns an error and no row of
\* the call is stored; a successful call stores the series, all its episodes
\* and the recomputed EpisodeCount together.
C17_CreateSeriesAllOrNothing ==
    \A draft \in SeriesDrafts, fail \in FailCreateSeries :
      LET seriesID == uuids + 1
          n == Len(draft.episodes)
          fails == \/ fail \notin {"none", "Episode.Save"}
                   \/ fail = "Episode.Save" /\ n > 0
                   \/ \E o \in DOMAIN series : series[o].slug = draft.slug
                   \/ \E i, j \in 1 .. n : i # j /\ draft.episodes[i].seq = draft.episodes[j].seq
          All ==
              /\ last'.err = OK
              /\ DOMAIN series' = DOMAIN series \cup {seriesID}
              /\ \A o \in DOMAIN series : series'[o] = series[o]
              /\ \A e \in DOMAIN episodes : e \in DOMAIN episodes' /\ episodes'[e] = episodes[e]
              /\ LET new == DOMAIN episodes' \ DOMAIN episodes
                 IN /\ Cardinality(new) = n
                    /\ \A e \in new : episodes'[e].seriesID = seriesID
                    /\ {episodes'[e].seq : e \in new} = {draft.episodes[i].seq : i \in 1 .. n}
              /\ series'[seriesID].episodeCount = n
              /\ series'[seriesID].slug = draft.slug
          Nothing ==
              /\ last'.err # OK
              /\ UNCHANGED seriesVars
      IN ~ENABLED (RepositoryCreateSeries(draft, fail)
                   /\ ~(IF fails THEN Nothing ELSE All))

\* a series with two episodes is stored, and a later CreateSeries whose second
\* episode repeats a Seq, or whose slug is taken, has failed and stored nothing
C17_Witness ==
    /\ last.op = "RepositoryCreateSeries"
    /\ last.err = ErrConstraint
    /\ \E s \in DOMAIN series :
         /\ series[s].episodeCount = 2
         /\ Cardinality({e \in DOMAIN episodes : episodes[e].seriesID = s}) = 2
    /\ Cardinality(DOMAIN series) = 1
    /\ Cardinality(DOMAIN episodes) = 2

---------------------------------------------------------------------------
(* Calls in progress at once *)

\* C18: the Asset Service does not serialize completion. A CompleteUpload that
\* has read its session as not completed goes on to the Provider and returns
\* success whatever another CompleteUpload on the same session has stored
\* meanwhile, so two interleaved calls both invoke the Provider and both
\* return success.
C18_CompletionNotSerialized ==
    \A p \in Callers :
      /\ inflight[p].pc \notin {"idle", "done"}
         => CanComplete(inflight[p].session.status)
      /\ inflight[p].pc = "done" /\ inflight[p].op = "CompleteUpload"
         /\ inflight[p].err \notin {ErrValidation, ErrNotFound}
         => \/ /\ inflight[p].err = ErrUploadInvalidState
               /\ ~inflight[p].provided
               /\ inflight[p].read = UploadStatusCompleted
            \/ /\ inflight[p].err = OK
               /\ inflight[p].provided
               /\ CanComplete(inflight[p].read)
               /\ \E sid \in DOMAIN sessions : sessions[sid].status = UploadStatusCompleted

\* both callers read the one session as awaiting upload, both invoked the
\* Provider and both returned success
C18_Witness ==
    /\ Cardinality(DOMAIN sessions) = 1
    /\ \A p \in Callers :
         /\ inflight[p].pc = "done"
         /\ inflight[p].op = "CompleteUpload"
         /\ inflight[p].err = OK
         /\ inflight[p].provided
         /\ inflight[p].read = UploadStatusAwaitingUpload
    /\ \A sid \in DOMAIN sessions : sessions[sid].status = UploadStatusCompleted

\* C19: when two DeleteEpisode calls on the same episode, not deleted when the
\* first of them began, have both returned, in whatever order their steps
\* ran, the episode is soft-deleted and the EpisodeCount of its series is the
\* number of its episodes that are not deleted: one less than before, not two.
C19_ConcurrentDelete ==
    (/\ \A p \in Callers : /\ inflight[p].pc = "done"
                           /\ inflight[p].op = "DeleteEpisode"
                           /\ inflight[p].err = OK
     /\ \E p \in Callers : ~inflight[p].already
     /\ inflight["a"].id = inflight["b"].id)
    => LET id == inflight["a"].id
           seriesID == episodes[id].seriesID
           first == CHOOSE p \in Callers :
                      /\ ~inflight[p].already
                      /\ \A q \in Callers :
                           ~inflight[q].already => inflight[q].before <= inflight[p].before
       IN /\ episodes[id].deletedAt # NoTime
          /\ episodes[id].status = EpisodeStatusArchived
          /\ series[seriesID].episodeCount = Cardinality(LiveEpisodes(episodes, seriesID))
          /\ series[seriesID].episodeCount = inflight[first].before - 1

\* both callers found the same episode of a series of two not deleted, both
\* deleted it and returned, and the count of the series is one
C19_Witness ==
    /\ \A p \in Callers : /\ inflight[p].pc = "done"
                          /\ inflight[p].op = "DeleteEpisode"
                          /\ inflight[p].err = OK
                          /\ ~inflight[p].already
                          /\ inflight[p].before = 2
    /\ inflight["a"].id = inflight["b"].id
    /\ series[episodes[inflight["a"].id].seriesID].episodeCount = 1

---------------------------------------------------------------------------
(* Listing *)

\* every page has at most P rows (20 for P <= 0) and a next-page token exactly
\* when more matching rows remain after it
C20_PageAndToken ==
    \A pageSize \in {0, 1, 2}, offset \in 0 .. MaxListed, statuses \in {{}, {SeriesStatusPublished}} :
      \A result \in ListSeries(pageSize, IF offset = 0 THEN "" ELSE Itoa(offset),
                               statuses, "none") :
        LET P == IF pageSize <= 0 THEN 20 ELSE pageSize
            total == Cardinality(MatchingSeries(statuses))
        IN /\ result.err = OK
           /\ Len(result.series) <= P
           /\ result.nextToken # "" <=> offset + Len(result.series) < total

\* a caller that followed the tokens to the empty token has seen every matching
\* row exactly once, newest first
C20_WalkVisitsAll(p) ==
    (inflight[p].pc = "done" /\ inflight[p].op = "ListSeries" /\ inflight[p].err = OK)
    => LET seen == inflight[p].seen
       IN /\ {seen[i] : i \in 1 .. Len(seen)} = MatchingSeries(inflight[p].statuses)
          /\ Len(seen) = Cardinality(MatchingSeries(inflight[p].statuses))
          /\ \A i, j \in 1 .. Len(seen) :
               i < j => series[seen[i]].createdAt >= series[seen[j]].createdAt

\* the same for the stores in which no two matching series were created at
\* the same time
C20_WalkOfDistinctTimes ==
    \A p \in Callers :
      (inflight[p].pc = "done" /\ inflight[p].op = "ListSeries"
       /\ \A a, b \in MatchingSeries(inflight[p].statuses) :
            a # b => series[a].createdAt # series[b].createdAt)
      => C20_WalkVisitsAll(p)

\* C20: on an unchanging store ListSeries with page size P (20 when P <= 0)
\* returns at most P rows and a non-empty next-page token exactly when more
\* matching rows remain, and following the tokens from the empty token until
\* an empty token comes back visits every matching row exactly once, in
\* descending creation order.
C20_ListSeriesPagination ==
    /\ C20_PageAndToken
    /\ \A p \in Callers : C20_WalkVisitsAll(p)

\* a caller has followed the tokens to the end and has seen one series twice
\* and another one never
C20_Witness ==
    \E p \in Callers :
      /\ inflight[p].pc = "done"
      /\ inflight[p].op = "ListSeries"
      /\ inflight[p].err = OK
      /\ \E i, j \in 1 .. Len(inflight[p].seen) :
           i # j /\ inflight[p].seen[i] = inflight[p].seen[j]
      /\ \E id \in MatchingSeries(inflight[p].statuses) :
           \A i \in 1 .. Len(inflight[p].seen) : inflight[p].seen[i] # id


---------------------------------------------------------------------------
(* Deleting an asset *)

\* a hard delete of a stored asset removes its row and nothing else
C21_HardDeleteRemoves(id) ==
    ~ENABLED (/\ DeleteAsset(id, TRUE)
              /\ ~(/\ last'.err = OK
                   /\ assets' = [a \in DOMAIN assets \ {id} |-> assets[a]]
                   /\ UNCHANGED sessions))

\* a soft delete of a stored asset keeps the row, sets its status to deleted
\* and its UpdatedAt to the time of the call, and changes no other field
C21_SoftDeleteArchives(id) ==
    ~ENABLED (/\ DeleteAsset(id, FALSE)
              /\ ~(/\ last'.err = OK
                   /\ DOMAIN assets' = DOMAIN assets
                   /\ assets'[id] = [assets[id] EXCEPT !.status = AssetStatusDeleted,
                                                       !.updatedAt = clock]
                   /\ \A a \in DOMAIN assets \ {id} : assets'[a] = assets[a]
                   /\ UNCHANGED sessions))

\* C21: DeleteAsset with hardDelete=true removes the asset row, so that a
\* later GetAsset returns not-found; with hardDelete=false it keeps the row,
\* sets its status to deleted and updates UpdatedAt, every other field
\* unchanged; one call never does both, and on a missing ID it returns
\* not-found in both modes.
C21_DeleteAsset ==
    /\ \A id \in DOMAIN assets :
         C21_HardDeleteRemoves(id) /\ C21_SoftDeleteArchives(id)
    /\ \A id \in UUIDs \ DOMAIN assets, hardDelete \in BOOLEAN :
         ~ENABLED (/\ DeleteAsset(id, hardDelete)
                   /\ ~(last'.err = ErrNotFound /\ UNCHANGED assetVars))
    /\ (last.op = "DeleteAsset" /\ last.err = OK /\ last.in.hardDelete)
         => /\ GetAsset(last.in.id).err = ErrNotFound
            /\ last.out = None
    /\ (last.op = "DeleteAsset" /\ last.err = OK /\ ~last.in.hardDelete)
         => /\ GetAsset(last.in.id).err = OK
            /\ assets[last.in.id].status = AssetStatusDeleted

\* a hard delete has just removed a stored asset
C21_Witness ==
    /\ last.op = "DeleteAsset"
    /\ last.err = OK
    /\ last.in.hardDelete
    /\ last.in.id \notin DOMAIN assets
    /\ clock > 1


---------------------------------------------------------------------------
(* Soft-deleted episodes *)

\* a soft-deleted episode is in the Episodes of no series that GetSeries or
\* ListSeries load with their episodes, and GetEpisode returns it with its
\* DeletedAt
C22_DeletedIsHidden(e) ==
    /\ GetEpisode(e).err = OK
    /\ GetEpisode(e).episode.id = e
    /\ GetEpisode(e).episode.deletedAt = episodes[e].deletedAt
    /\ GetEpisode(e).episode.deletedAt # NoTime
    /\ \A s \in DOMAIN series :
         LET got == GetSeries(s, TRUE)
         IN got.err = OK
            /\ \A i \in 1 .. Len(got.series.episodes) : got.series.episodes[i].id # e
    /\ \A result \in ListSeriesWithEpisodes(0, "", {}) :
         /\ result.err = OK
         /\ Len(result.series) = Cardinality(DOMAIN series)
         /\ \A i \in 1 .. Len(result.series) :
              \A j \in 1 .. Len(result.series[i].episodes) :
                 result.series[i].episodes[j].id # e

\* a DeleteEpisode on a live episode can only end with the episode marked
\* deleted and the EpisodeCount of its series equal to the number of the
\* series' other live episodes
C22_NotCounted(id) ==
    ~ENABLED (/\ DeleteEpisode(id, "none")
              /\ ~(LET owner == episodes[id].seriesID
                   IN /\ last'.err = OK
                      /\ episodes'[id].deletedAt # NoTime
                      /\ id \notin LiveEpisodes(episodes', owner)
                      /\ LiveEpisodes(episodes', owner) = LiveEpisodes(episodes, owner) \ {id}
                      /\ series'[owner].episodeCount =
                            Cardinality(LiveEpisodes(episodes, owner) \ {id})))

---------------------------------------------------------------------------
(* The entities the SeriesService creates *)

\* an episode built from a draft at time now, given the ids issued before
C23_EpisodeBuilt(episode, draft, seriesID, issued, now) ==
    /\ episode.id # NilUUID
    /\ episode.id > issued
    /\ episode.seriesID = seriesID
    /\ episode.seq = draft.seq
    /\ episode.status = IF draft.status = EpisodeStatusUnspecified
                        THEN EpisodeStatusDraft ELSE draft.status
    /\ episode.publishedAt = IF episode.status = EpisodeStatusPublished
                             THEN now ELSE NoTime
    /\ episode.createdAt = now
    /\ episode.updatedAt = now

\* C23: the entity that CreateSeries and CreateEpisode hand to the Repository
\* has a fresh non-nil ID, status draft when the draft names none, PublishedAt
\* equal to the clock exactly when the resolved status is published and unset
\* otherwise, CreatedAt and UpdatedAt equal to the clock, Tags and AuthorIDs
\* nil when empty; every episode of a series batch carries the new series' ID
\* and the series' EpisodeCount is the length of the batch.
C23_HandedEntity ==
    /\ (last.op = "CreateSeries" /\ last.err = OK)
         => LET handed == last.out.series
                draft == last.in.draft
                now == last.in.now
            IN /\ handed.id # NilUUID
               /\ handed.id > last.in.issued
               /\ handed.status = IF draft.status = SeriesStatusUnspecified
                                  THEN SeriesStatusDraft ELSE draft.status
               /\ handed.publishedAt = IF handed.status = SeriesStatusPublished
                                       THEN now ELSE NoTime
               /\ handed.createdAt = now
               /\ handed.updatedAt = now
               /\ handed.tags.items = draft.tags.items
               /\ handed.authorIDs.items = draft.authorIDs.items
               /\ handed.tags.nil <=> Len(draft.tags.items) = 0
               /\ handed.authorIDs.nil <=> Len(draft.authorIDs.items) = 0
               /\ handed.episodeCount = Len(draft.episodes)
               /\ Len(handed.episodes) = Len(draft.episodes)
               /\ \A i \in 1 .. Len(handed.episodes) :
                    /\ C23_EpisodeBuilt(handed.episodes[i], draft.episodes[i],
                                        handed.id, last.in.issued, now)
                    /\ handed.episodes[i].id # handed.id
                    /\ \A j \in 1 .. Len(handed.episodes) :
                         i # j => handed.episodes[i].id # handed.episodes[j].id
    /\ (last.op = "CreateEpisode" /\ last.err = OK)
         => C23_EpisodeBuilt(last.out.episode, last.in.draft, last.in.seriesID,
                             last.in.issued, last.in.now)

\* a published series was handed over with empty Tags, at a time after the
\* first, with a batch of a published episode and one of unspecified status
C23_Witness ==
    /\ last.op = "CreateSeries"
    /\ last.err = OK
    /\ clock > 1
    /\ last.in.draft.status = SeriesStatusPublished
    /\ ~last.in.draft.tags.nil
    /\ last.in.draft.tags.items = <<>>
    /\ last.out.series.episodeCount = 2
    /\ last.out.series.episodes[1].status = EpisodeStatusPublished
    /\ last.in.draft.episodes[2].status = EpisodeStatusUnspecified


---------------------------------------------------------------------------
(* Partial updates through the transport handlers *)

\* the path is one of the paths
C24_Named(paths, path) == \E i \in 1 .. Len(paths) : paths[i] = path

\* the value a field has after the update: the patch's when a path names it
C24_Field(paths, path, patched, stored) ==
    IF C24_Named(paths, path) THEN patched ELSE stored

\* PublishedAt after an update that leaves the entity with the status
C24_PublishRule(status, published, publishedAt) ==
    IF status = published /\ publishedAt = NoTime THEN clock ELSE publishedAt

\* how SeriesHandler.UpdateSeries on a stored series may end
C24_SeriesUpdated(id, patch, mask) ==
    LET paths == IF mask = <<>> THEN DefaultSeriesPaths ELSE mask
        supported == {DefaultSeriesPaths[i] : i \in 1 .. Len(DefaultSeriesPaths)}
        status == C24_Field(paths, "status", patch.status, series[id].status)
    IN IF \E i \in 1 .. Len(paths) : paths[i] \notin supported
       THEN last'.err = ErrValidation /\ UNCHANGED seriesVars
       ELSE \/ last'.err # OK /\ UNCHANGED seriesVars
            \/ /\ last'.err = OK
               /\ UNCHANGED episodes
               /\ series' = [series EXCEPT ![id] =
                     [@ EXCEPT
                        !.slug = C24_Field(paths, "slug", patch.slug, @),
                        !.status = status,
                        !.updatedAt = clock,
                        !.publishedAt =
                           C24_PublishRule(status, SeriesStatusPublished, @)]]

\* how SeriesHandler.UpdateEpisode on a stored episode may end; the series
\* of the episode is recounted
C24_EpisodeUpdated(id, patch, mask) ==
    LET paths == IF mask = <<>> THEN DefaultEpisodePaths ELSE mask
        supported == {"seq", "title", "description", "duration", "status", "resource",
                      "resource.asset_id", "resource.type", "resource.playback_url",
                      "resource.mime_type", "transcript", "transcript.language",
                      "transcript.format", "transcript.content"}
        status == C24_Field(paths, "status", patch.status, episodes[id].status)
    IN IF \E i \in 1 .. Len(paths) : paths[i] \notin supported
       THEN last'.err = ErrValidation /\ UNCHANGED seriesVars
       ELSE \/ last'.err # OK /\ UNCHANGED seriesVars
            \/ /\ last'.err = OK
               /\ episodes' = [episodes EXCEPT ![id] =
                     [@ EXCEPT
                        !.seq = C24_Field(paths, "seq", patch.seq, @),
                        !.durationSeconds =
                           C24_Field(paths, "duration",
                                     DurationSeconds(patch.duration), @),
                        !.status = status,
                        !.updatedAt = clock,
                        !.publishedAt =
                           C24_PublishRule(status, EpisodeStatusPublished, @)]]

\* how AssetHandler.UpdateAsset without a mask may end on a stored asset:
\* every field that can be updated is the request's
C24_AssetReplaced(id, message) ==
    \/ last'.err # OK /\ UNCHANGED assets
    \/ /\ last'.err = OK
       /\ assets' = [assets EXCEPT ![id] =
             [@ EXCEPT
                !.status = message.status,
                !.playbackURL = message.playbackURL,
                !.mimeType = message.mimeType,
                !.filesize = message.filesize,
                !.originalFilename = message.originalFilename,
                !.durationSeconds = DurationSeconds(message.duration),
                !.readyAt = message.readyAt,
                !.updatedAt = clock]]

\* how AssetHandler.UpdateAsset with a mask may end on a stored asset
C24_AssetUpdated(id, message, mask) ==
    LET supported == {"status", "playback_url", "mime_type", "filesize",
                      "original_filename", "duration"}
    IN IF \E i \in 1 .. Len(mask) : mask[i] \notin supported
       THEN last'.err = ErrValidation /\ UNCHANGED assets
       ELSE \/ last'.err # OK /\ UNCHANGED assets
            \/ /\ last'.err = OK
               /\ assets' = [assets EXCEPT ![id] =
                     [@ EXCEPT
                        !.status = C24_Field(mask, "status", message.status, @),
                        !.playbackURL = C24_Field(mask, "playback_url",
                                                  message.playbackURL, @),
                        !.mimeType = C24_Field(mask, "mime_type", message.mimeType, @),
                        !.filesize = C24_Field(mask, "filesize", message.filesize, @),
                        !.originalFilename =
                           C24_Field(mask, "original_filename",
                                     message.originalFilename, @),
                        !.durationSeconds =
                           C24_Field(mask, "duration",
                                     DurationSeconds(message.duration), @),
                        !.updatedAt = clock]]

\* C24: a partial update of a Series, Episode or Asset through the transport
\* handler changes only the fields that the field mask names and leaves every
\* other field of the stored entity as it was, apart from UpdatedAt and the
\* publish timestamp; an empty mask replaces all fields that can be updated; a
\* mask with an unsupported path fails with a Validation error and stores
\* nothing.  No call on a stored entity can end otherwise.
C24_PartialUpdate ==
    /\ ~ENABLED (\E id \in DOMAIN series, patch \in SeriesPatches, mask \in SeriesMasks,
                    fail \in FailRepo :
                   /\ HandlerUpdateSeries(id, patch, mask, fail)
                   /\ ~C24_SeriesUpdated(id, patch, mask))
    /\ ~ENABLED (\E id \in DOMAIN episodes, patch \in EpisodePatches,
                    mask \in EpisodeMasks, fail \in FailRepo :
                   /\ HandlerUpdateEpisode(id, patch, mask, fail)
                   /\ ~C24_EpisodeUpdated(id, patch, mask))
    /\ ~ENABLED (\E id \in DOMAIN assets, message \in AssetMessages,
                    fail \in FailUpdateAsset :
                   /\ UpdateAsset(id, message, fail)
                   /\ ~C24_AssetReplaced(id, message))
    /\ ~ENABLED (\E id \in DOMAIN assets, message \in AssetMessages, mask \in UpdateMasks,
                    fail \in FailUpdateAsset :
                   /\ UpdateAssetMasked(id, message, mask, fail)
                   /\ ~C24_AssetUpdated(id, message, mask))

\* an update of the status of an episode alone, at a later time than it was
\* created, has left its duration as stored
C24_Witness ==
    /\ last.op = "UpdateEpisode"
    /\ last.err = OK
    /\ episodes[last.in.id].status = EpisodeStatusReady
    /\ episodes[last.in.id].durationSeconds = 1
    /\ episodes[last.in.id].updatedAt = 2
    /\ episodes[last.in.id].publishedAt = NoTime


---------------------------------------------------------------------------
(* A completion that fails after the session was stored *)

\* a CompleteUpload that passes the switch and then fails in GetAssetByKey or
\* UpdateAsset (the asset may be gone) can only end with the error returned,
\* the session stored completed and the assets as they were
C25_FailsAfterSession ==
    ~ENABLED (\E params \in CompleteUploadParams, providerRes \in ProviderCompleteUploadResults,
                 fail \in {"none", "repo.GetAssetByKey", "repo.UpdateAsset"} :
                /\ params.contentLength >= 0
                /\ lookupUploadSession(params.identifier, fail).err = OK
                /\ CanComplete(lookupUploadSession(params.identifier, fail).row.status)
                /\ \/ fail # "none"
                   \/ AssetByKey(lookupUploadSession(params.identifier, fail).row.assetKey) = {}
                /\ CompleteUpload(params, providerRes, fail)
                /\ ~(/\ last'.err # OK
                     /\ last'.out = None
                     /\ sessions'[last'.in.sid].status = UploadStatusCompleted
                     /\ UNCHANGED <<assets, everReady>>))

\* a CompleteUpload that resolves a completed session can only end with
\* ErrUploadInvalidState and nothing stored
C25_RejectedLater ==
    ~ENABLED (\E params \in CompleteUploadParams, providerRes \in ProviderCompleteUploadResults,
                 fail \in FailCompleteUpload :
                /\ params.contentLength >= 0
                /\ lookupUploadSession(params.identifier, fail).err = OK
                /\ lookupUploadSession(params.identifier, fail).row.status
                      = UploadStatusCompleted
                /\ CompleteUpload(params, providerRes, fail)
                /\ ~(last'.err = ErrUploadInvalidState /\ UNCHANGED assetVars))

\* a completed session stays completed, and while the session of an asset is
\* completed no CompleteUpload makes the asset ready
C25_StaysCompleted ==
    /\ \A s \in DOMAIN sessions :
         sessions[s].status = UploadStatusCompleted
         => s \in DOMAIN sessions' /\ sessions'[s].status = UploadStatusCompleted
    /\ \A a \in DOMAIN assets \cap DOMAIN assets' :
         (/\ \E s \in SessionByKey(assets[a].assetKey) :
                sessions[s].status = UploadStatusCompleted
          /\ assets[a].status # AssetStatusReady
          /\ assets'[a].status = AssetStatusReady)
         => last'.op # "CompleteUpload"

\* C25: when CompleteUpload has stored the session as completed and then
\* GetAssetByKey or UpdateAsset fails, the call returns the error, the session
\* stays completed and the asset is left as it was, not ready; every later
\* CompleteUpload that resolves this session returns ErrUploadInvalidState, so
\* that CompleteUpload never makes the asset ready.
C25_CompletedWithoutReadyAsset ==
    /\ [](C25_FailsAfterSession /\ C25_RejectedLater)
    /\ [][C25_StaysCompleted]_vars

\* a CompleteUpload has just failed with not-found after it stored the session
\* completed: the asset had been hard-deleted
C25_Witness ==
    /\ last.op = "CompleteUpload"
    /\ last.err = ErrNotFound
    /\ last.writes = 1
    /\ sessions[last.in.sid].status = UploadStatusCompleted
    /\ AssetByKey(sessions[last.in.sid].assetKey) = {}


---------------------------------------------------------------------------
(* The seq of a soft-deleted episode *)

\* the stored episodes of the series that hold the seq, deleted or not
C26_Holders(seriesID, seq) ==
    {e \in DOMAIN episodes : episodes[e].seriesID = seriesID /\ episodes[e].seq = seq}

\* C26: CreateEpisode with a (SeriesID, Seq) pair that a stored episode of the
\* series holds, a soft-deleted one included, is rejected with an error,
\* stores no episode and leaves the EpisodeCount of the series unchanged; so
\* the Seq of an episode that DeleteEpisode has deleted cannot be used again
\* in its series.
C26_SeqNotReused ==
    /\ ~ENABLED (\E seriesID \in DOMAIN series, draft \in EpisodeDrafts, fail \in FailRepo :
                   /\ C26_Holders(seriesID, draft.seq) # {}
                   /\ CreateEpisode(seriesID, draft, fail)
                   /\ ~(/\ last'.err # OK
                        /\ UNCHANGED episodes
                        /\ series'[seriesID].episodeCount = series[seriesID].episodeCount
                        /\ UNCHANGED series))
    /\ (last.op = "DeleteEpisode" /\ last.err = OK)
         => ~ENABLED (\E draft \in EpisodeDrafts, fail \in FailRepo :
                        /\ draft.seq = episodes[last.in.id].seq
                        /\ CreateEpisode(episodes[last.in.id].seriesID, draft, fail)
                        /\ last'.err = OK)

\* a CreateEpisode has just been rejected for a seq that only a soft-deleted
\* episode of the series holds
C26_Witness ==
    /\ last.op = "CreateEpisode"
    /\ last.err = ErrConstraint
    /\ last.in.seriesID \in DOMAIN series
    /\ C26_Holders(last.in.seriesID, last.in.seq) # {}
    /\ \A e \in C26_Holders(last.in.seriesID, last.in.seq) : episodes[e].deletedAt # NoTime


---------------------------------------------------------------------------
(* The statuses of an upload session *)

\* a CompleteUpload with valid input on an awaiting-upload session whose
\* asset is stored, with no failure of the Provider or the Repository, cannot
\* end with an error, whatever the clock and the session's ExpiresAt are
C27_ExpiryNotChecked ==
    ~ENABLED (\E params \in CompleteUploadParams,
                 providerRes \in ProviderCompleteUploadResults :
                /\ params.contentLength >= 0
                /\ lookupUploadSession(params.identifier, "none").err = OK
                /\ lookupUploadSession(params.identifier, "none").row.status
                      = UploadStatusAwaitingUpload
                /\ AssetByKey(lookupUploadSession(params.identifier, "none").row.assetKey)
                      # {}
                /\ CompleteUpload(params, providerRes, "none")
                /\ ~(/\ last'.err = OK
                     /\ sessions'[last'.in.sid].status = UploadStatusCompleted
                     /\ sessions'[last'.in.sid].expiresAt = sessions[last'.in.sid].expiresAt))

\* C27: in every state reachable through Asset Service operations each stored
\* UploadSession has status awaiting-upload or completed (uploading, expired
\* and failed are never stored), and CompleteUpload succeeds on a session
\* whether or not its ExpiresAt has passed.
C27_SessionStatuses ==
    /\ \A s \in DOMAIN sessions :
         sessions[s].status \in {UploadStatusAwaitingUpload, UploadStatusCompleted}
    /\ C27_ExpiryNotChecked

\* a CompleteUpload has succeeded at a time after the session's ExpiresAt
C27_Witness ==
    /\ last.op = "CompleteUpload"
    /\ last.err = OK
    /\ sessions[last.in.sid].status = UploadStatusCompleted
    /\ sessions[last.in.sid].expiresAt < last.out.asset.updatedAt


---------------------------------------------------------------------------
(* Completing the upload of an asset that is deleted or failed *)

---------------------------------------------------------------------------
(* Assets, sessions and their keys *)

\* C29: in every state reachable through Asset Service operations each stored
\* Asset has exactly one stored UploadSession with the same AssetKey, and no
\* two assets and no two sessions share an AssetKey; a session without an
\* asset can exist, an asset without a session cannot.
C29_KeyPairing ==
    /\ \A a \in DOMAIN assets :
         Cardinality(SessionByKey(assets[a].assetKey)) = 1
    /\ \A a, b \in DOMAIN assets :
         a # b => assets[a].assetKey # assets[b].assetKey
    /\ \A s, t \in DOMAIN sessions :
         s # t => sessions[s].assetKey # sessions[t].assetKey

\* two sessions are stored, one with its asset and one without
C29_Witness ==
    /\ Cardinality(DOMAIN sessions) = 2
    /\ \E s \in DOMAIN sessions : AssetByKey(sessions[s].assetKey) = {}
    /\ \E s \in DOMAIN sessions : AssetByKey(sessions[s].assetKey) # {}


---------------------------------------------------------------------------
(* C30: EpisodeCount after an update interleaves with CreateEpisode or
   DeleteEpisode *)

\* every call of the update handlers has returned or has not begun
C30_AllFinished ==
    \A p \in Callers : inflight[p].pc \in {"idle", "done"}

\* the stored EpisodeCount of the series id is the number of its episodes
\* that are not deleted
C30_CountIsLive(id) ==
    series[id].episodeCount = Cardinality(LiveEpisodes(episodes, id))

\* C30: once every UpdateSeries and UpdateEpisode of the handlers has
\* finished, whatever CreateEpisode and DeleteEpisode ran in between, the
\* stored EpisodeCount of every series equals the number of its non-deleted
\* episodes.
C30_CountAfterInterleaving ==
    C30_AllFinished => \A id \in DOMAIN series : C30_CountIsLive(id)

\* an UpdateSeries of the handler has succeeded, nothing is in progress, and
\* the count it read and wrote back is not the number of live episodes
C30_Witness ==
    /\ C30_AllFinished
    /\ \E p \in Callers :
        /\ inflight[p].pc = "done" /\ inflight[p].op = "UpdateSeries"
        /\ inflight[p].err = OK
        /\ series[inflight[p].id].episodeCount = inflight[p].read
        /\ ~C30_CountIsLive(inflight[p].id)

\* an UpdateEpisode has finished, nothing is in progress, and the count it
\* wrote is not the number of live episodes of the episode's series
C30_StaleRecount ==
    /\ C30_AllFinished
    /\ \E p \in Callers :
        /\ inflight[p].pc = "done" /\ inflight[p].op = "UpdateEpisode"
        /\ inflight[p].err = OK
        /\ LET id == episodes[inflight[p].id].seriesID
           IN series[id].episodeCount = inflight[p].counted /\ ~C30_CountIsLive(id)

\* while no call of the handlers is between its read and its last write, the
\* counts are those of CreateSeries, CreateEpisode and DeleteEpisode
C30_CountWithoutOverlap ==
    (\A p \in Callers : inflight[p] = Idle)
        => \A id \in DOMAIN series : C30_CountIsLive(id)

====
